---- MODULE Spec2Model ----
(***************************************************************************)
(* The goal-projection engine of FinanceAI (services/goal_calculator.py)   *)
(* and its caller, the POST /goals/calculate handler (routes/goals.py).    *)
(*                                                                         *)
(* Money.  The code computes in IEEE-754 doubles.  Every amount of the     *)
(* model is an integer number of 1/200 (half a cent), and every input is   *)
(* a multiple of 1/8 = 25/200 with a monthly rate that is a whole number:  *)
(* on these values every sum, product and comparison of the code is exact  *)
(* in double precision, so the integer arithmetic below is the code's      *)
(* arithmetic.  round(x, 2) maps a multiple of 1/8 to a multiple of 1/100, *)
(* which is why the common unit is 1/200.  The quotients the code rounds   *)
(* (math.ceil of a division, round(months / 12, 1)) are far enough from    *)
(* the rounding boundary on these values for the double quotient to round  *)
(* as the exact one does.  Two places where the double result is not the   *)
(* exact one are modelled by the value the double computation yields: the  *)
(* quotient of two logarithms at an exact power (FloatCeilExcess), and the *)
(* sum 1 + monthly_rate for a positive rate too small to change it         *)
(* (Epsilon, OnePlus).                                                     *)
(*                                                                         *)
(* Two specifications.  Spec is one request at a time through the handler; *)
(* SpecThreads is calculate_goal_projection called from several threads,   *)
(* its body run in steps, with the objects it allocates held by reference. *)
(***************************************************************************)
EXTENDS Integers, Sequences, FiniteSets, TLC

VARIABLES
    pc,         \* position of the request: "idle", "running", "done",
                \* "failed" when the handler raised before the call, or
                \* "raised" when calculate_goal_projection raised
    form,       \* request.form of the request being handled
    args,       \* arguments the handler passes to calculate_goal_projection
    result,     \* dictionary returned by calculate_goal_projection
    now,        \* datetime.now(), in days since 1 January of EpochYear
    encodings,  \* observed <<months_needed, status>> pairs, by kind of goal
    previous,   \* result of the call before, when its arguments were the same
    threads,    \* concurrent calls: the local variables of each thread
    lists,      \* the list objects allocated by generate_projection
    dicts,      \* the dict objects allocated by get_goal_type_info
    solved,     \* a direct call of calculate_required_contribution: its
                \* arguments and what it returned
    clock,      \* time.time(), in seconds
    _price_cache,       \* symbol -> [price, timestamp]
    _day_change_cache,  \* symbol -> [data, timestamp]
    _dividend_cache,    \* symbol -> [dividend, timestamp]
    _corporate_cache,   \* symbol -> [data, timestamp]
    latest,     \* per symbol, the price the provider gave last and when,
                \* since the price cache was last cleared
    call,       \* the last call of a function of stock_service.py
    holdings,   \* the table of Holding: id -> row
    goals,      \* the table of Goal: id -> row
    reply,      \* the response to the last request of routes/portfolio.py
                \* or routes/goals.py, until the client has it
    watchlist,  \* the table of Watchlist: id -> row
    flight,     \* the add_to_watchlist requests between their query and
                \* their insert
    answer      \* the response to the last watchlist request

\* the variables of one request at a time, and those of concurrent calls
rvars == <<pc, form, args, result, encodings, previous>>
cvars == <<threads, lists, dicts>>

\* the variables of the market-data caches
mvars == <<clock, _price_cache, _day_change_cache, _dividend_cache,
           _corporate_cache, latest, call>>

\* the variables of the database
dvars == <<holdings, goals, reply, watchlist, flight, answer>>

\* the variables of the other specifications
ovars == <<solved, mvars, dvars>>

vars == <<pc, form, args, result, now, encodings, previous,
          threads, lists, dicts, ovars>>

----------------------------------------------------------------------------
(* Bounds of the model *)

MaxNow == 1             \* days the clock may advance
MaxContribution == 3    \* a monthly contribution, in eighths
MaxSavings == 200       \* the largest current savings, in eighths
MaxThreads == 2         \* threads that call the engine concurrently

----------------------------------------------------------------------------
(* Values *)

None == <<>>
Some(v) == <<v>>

\* n eighths of a currency unit, in units of 1/200
E(n) == 25 * n

\* float('inf'): larger than every finite number of months
Inf == 2000000000

\* A monthly rate of 2^-60, written as a number that is no whole rate of the
\* model: it is positive, and 1 + 2^-60 is 1 in double precision.
Epsilon == 1999999999

\* the expected_return, 1200 * 2^-60, whose monthly rate is Epsilon
TinyReturn == 1999999998

\* 1 + monthly_rate in double precision
OnePlus(monthly_rate) ==
    IF monthly_rate = Epsilon THEN 1 ELSE 1 + monthly_rate

max_months == 600
display_cap_months == 600
chart_cap_months == 120
default_chart_months == 60

\* the rounding of Python's round(x, 2) for x a multiple of 1/8: to the
\* nearest cent, an exact tie (x.xx5) going to the even cent
Round2(v) ==
    IF v % 2 = 0 THEN v
    ELSE IF (v - 1) % 4 = 0 THEN v - 1 ELSE v + 1

\* round(num/den, 1) in tenths, den > 0, num >= 0: ties to the even tenth
Round1Tenths(num, den) ==
    LET q == (10 * num) \div den
        r == (10 * num) % den
    IN  IF 2 * r < den THEN q
        ELSE IF 2 * r > den THEN q + 1
        ELSE IF q % 2 = 0 THEN q ELSE q + 1

\* round(q[1] / q[2], 2) for a quotient of amounts, q[2] > 0: the nearest
\* cent, a tie going to the even cent (on the inputs of the model a quotient
\* that is a tie is a multiple of 1/8, which the double division yields
\* exactly)
RoundQuotient2(q) ==
    LET d == 2 * q[2]
        k == q[1] \div d
        r == q[1] % d
    IN  IF 2 * r < d THEN 2 * k
        ELSE IF 2 * r > d THEN 2 * (k + 1)
        ELSE IF k % 2 = 0 THEN 2 * k ELSE 2 * (k + 1)

\* mutant: the quotient rounded down
CeilDiv_Floor(a, b) == a \div b

\* math.ceil(a / b) for b > 0
CeilDiv(a, b) == -((-a) \div b)

RECURSIVE Pow(_, _)
Pow(g, n) ==
    IF n = 0 THEN 1
    ELSE IF n % 2 = 0 THEN Pow(g * g, n \div 2)
    ELSE g * Pow(g, n - 1)

----------------------------------------------------------------------------
(* datetime.now() + timedelta(days), formatted with '%B %Y' *)

EpochYear == 2026

IsLeap(y) == (y % 4 = 0 /\ y % 100 # 0) \/ y % 400 = 0

DaysInMonth(y, m) ==
    IF m = 2 THEN (IF IsLeap(y) THEN 29 ELSE 28)
    ELSE IF m \in {4, 6, 9, 11} THEN 30 ELSE 31

DaysInYear(y) == IF IsLeap(y) THEN 366 ELSE 365

\* the <<year, month>> of the day d days after the first day of month m of y
RECURSIVE MonthOfYear(_, _, _)
MonthOfYear(d, y, m) ==
    IF d < DaysInMonth(y, m) THEN <<y, m>>
    ELSE MonthOfYear(d - DaysInMonth(y, m), y, m + 1)

\* the <<year, month>> of the day d days after 1 January of year y
RECURSIVE MonthYear(_, _)
MonthYear(d, y) ==
    IF d < DaysInYear(y) THEN MonthOfYear(d, y, 1)
    ELSE MonthYear(d - DaysInYear(y), y + 1)

----------------------------------------------------------------------------
(* get_goal_type_info *)

GoalTypes ==
    [short |-> [name |-> "Short-term Goal", typical_months |-> 12,
                recommended_return |-> 4, risk_level |-> "Low"],
     mid   |-> [name |-> "Mid-term Goal", typical_months |-> 36,
                recommended_return |-> 6, risk_level |-> "Moderate"],
     long  |-> [name |-> "Long-term Goal", typical_months |-> 120,
                recommended_return |-> 10, risk_level |-> "Higher"]]

\* goal_type is Some(string), or None when the form had no goal_type
KnownGoalType(goal_type) ==
    goal_type # None /\ goal_type[1] \in DOMAIN GoalTypes

\* mutant: an unknown goal type gets the short-term profile
get_goal_type_info_DefaultShort(goal_type) ==
    IF KnownGoalType(goal_type) THEN GoalTypes[goal_type[1]]
    ELSE GoalTypes["short"]

get_goal_type_info(goal_type) ==
    IF KnownGoalType(goal_type) THEN GoalTypes[goal_type[1]]
    ELSE GoalTypes["mid"]

----------------------------------------------------------------------------
(* calculate_months_to_goal *)

\* mutant: the loop is not limited to max_months
MonthsLoopGuard_Unlimited(target, s) == s[1] < target

\* The state of the while loop is <<current, months>>.
MonthsLoopGuard(target, s) == s[1] < target /\ s[2] < max_months

MonthsLoopBody(monthly_pmt, monthly_rate, s) ==
    <<s[1] * OnePlus(monthly_rate) + monthly_pmt, s[2] + 1>>

\* The while loop run from state s until its guard fails, for at most 2^k
\* iterations (the halving keeps the evaluation shallow; the guard stops
\* the loop within max_months < 2^10 iterations).
RECURSIVE MonthsLoop(_, _, _, _, _)
MonthsLoop(target, monthly_pmt, monthly_rate, s, k) ==
    IF ~MonthsLoopGuard(target, s) THEN s
    ELSE IF k = 0 THEN MonthsLoopBody(monthly_pmt, monthly_rate, s)
    ELSE MonthsLoop(target, monthly_pmt, monthly_rate,
                    MonthsLoop(target, monthly_pmt, monthly_rate, s, k - 1),
                    k - 1)

\* mutant: the months counted are returned whether or not the target was
\* reached
calculate_months_to_goal_Unchecked(target, principal, monthly_pmt, monthly_rate) ==
    IF monthly_rate = 0
    THEN IF monthly_pmt <= 0 THEN Inf
         ELSE CeilDiv(target - principal, monthly_pmt)
    ELSE MonthsLoop(target, monthly_pmt, monthly_rate, <<principal, 0>>, 10)[2]

calculate_months_to_goal(target, principal, monthly_pmt, monthly_rate) ==
    IF monthly_rate = 0
    THEN IF monthly_pmt <= 0 THEN Inf
         ELSE CeilDiv(target - principal, monthly_pmt)
    ELSE LET s == MonthsLoop(target, monthly_pmt, monthly_rate,
                             <<principal, 0>>, 10)
         IN  IF s[1] >= target THEN s[2] ELSE Inf

----------------------------------------------------------------------------
(* The growth-only branch: math.ceil(math.log(t / c) / math.log(1 + r)) *)

\* least n with current * growth^n >= target (growth >= 2, 0 < current)
RECURSIVE GrowthMonths(_, _, _, _)
GrowthMonths(target, current, growth, n) ==
    IF current >= target THEN n
    ELSE GrowthMonths(target, current * growth, growth, n + 1)

\* <<b, k>>: in double precision math.log(b^k) / math.log(b) is just above k,
\* so its ceiling is k + 1: math.log(125.0) / math.log(5.0) is
\* 3.0000000000000004.  For every other exact power of 2 and 5 below 2^31 the
\* quotient is k or just below it, and for a ratio that is no exact power
\* the quotient is further from an integer than the rounding error.
FloatCeilExcess == {<<2, 29>>, <<5, 3>>, <<5, 6>>, <<5, 12>>, <<5, 13>>}

LogCeilMonths(target, current, monthly_rate) ==
    LET growth == OnePlus(monthly_rate)
        n == GrowthMonths(target, current, growth, 0)
        exact == current * Pow(growth, n) = target
    IN  IF exact /\ <<growth, n>> \in FloatCeilExcess THEN n + 1 ELSE n

----------------------------------------------------------------------------
(* calculate_required_contribution: the value returned, as the quotient
   <<numerator, denominator>> that round(.., 2) is then applied to *)

calculate_required_contribution(target, current, monthly_rate, months) ==
    IF months <= 0 THEN <<Inf, 1>>
    ELSE IF monthly_rate = 0 THEN <<target - current, months>>
    ELSE LET growth == Pow(OnePlus(monthly_rate), months)
             fv_current == current * growth
             amount_needed == target - fv_current
             contribution == <<amount_needed * monthly_rate, growth - 1>>
         IN  IF amount_needed <= 0 THEN <<0, 1>>
             ELSE IF contribution[2] < 0
                  THEN (IF contribution[1] <= 0
                        THEN <<-contribution[1], -contribution[2]>>
                        ELSE <<0, 1>>)
                  ELSE (IF contribution[1] >= 0 THEN contribution
                        ELSE <<0, 1>>)

----------------------------------------------------------------------------
(* generate_projection *)

\* mutant: the interest keeps the principal
ProjectionPoint_InterestWithPrincipal(principal, monthly_contribution, month, current) ==
    [month |-> month,
     amount |-> Round2(current),
     contributions |-> Round2(principal + monthly_contribution * month),
     interest |-> Round2(current - monthly_contribution * month)]

ProjectionPoint(principal, monthly_contribution, month, current) ==
    [month |-> month,
     amount |-> Round2(current),
     contributions |-> Round2(principal + monthly_contribution * month),
     interest |-> Round2(current - principal - monthly_contribution * month)]

\* mutant: the point is recorded after the balance is advanced
ProjectionLoopBody_AdvanceFirst(principal, monthly_contribution, monthly_rate, s) ==
    LET current == s[2] * OnePlus(monthly_rate) + monthly_contribution
    IN  <<s[1] + 1, current,
          Append(s[3], ProjectionPoint(principal, monthly_contribution,
                                       s[1], current))>>

\* mutant: the contribution is taken out of the balance
ProjectionLoopBody_Withdraw(principal, monthly_contribution, monthly_rate, s) ==
    <<s[1] + 1,
      s[2] * OnePlus(monthly_rate) - monthly_contribution,
      Append(s[3], ProjectionPoint(principal, monthly_contribution,
                                   s[1], s[2]))>>

\* The state of the for loop is <<month, current, projection>>.
ProjectionLoopBody(principal, monthly_contribution, monthly_rate, s) ==
    <<s[1] + 1,
      s[2] * OnePlus(monthly_rate) + monthly_contribution,
      Append(s[3], ProjectionPoint(principal, monthly_contribution,
                                   s[1], s[2]))>>

\* The for loop over range(int(months) + 1) run from state s, for at most
\* 2^k iterations (the halving keeps the evaluation shallow).
RECURSIVE ProjectionLoop(_, _, _, _, _, _)
ProjectionLoop(principal, monthly_contribution, monthly_rate, months, s, k) ==
    IF s[1] > months THEN s
    ELSE IF k = 0
    THEN ProjectionLoopBody(principal, monthly_contribution, monthly_rate, s)
    ELSE ProjectionLoop(principal, monthly_contribution, monthly_rate, months,
                        ProjectionLoop(principal, monthly_contribution,
                                       monthly_rate, months, s, k - 1),
                        k - 1)

\* months <= chart_cap_months < 2^7 - 1
generate_projection(principal, monthly_contribution, monthly_rate, months) ==
    ProjectionLoop(principal, monthly_contribution, monthly_rate, months,
                   <<0, principal, <<>>>>, 7)[3]

----------------------------------------------------------------------------
(* calculate_goal_projection *)

\* monthly_rate = expected_return / 100 / 12 (expected_return a multiple
\* of 1200, so that the quotient is a whole number, or TinyReturn)
MonthlyRate(expected_return) ==
    IF expected_return = TinyReturn THEN Epsilon
    ELSE (expected_return \div 100) \div 12

\* lines 22-38: the months needed before the display cap
ComputedMonths(target_amount, current_savings, monthly_contribution, monthly_rate) ==
    IF monthly_contribution <= 0
    THEN IF current_savings >= target_amount THEN 0
         ELSE IF monthly_rate > 0
              THEN IF current_savings > 0
                   THEN LogCeilMonths(target_amount, current_savings,
                                      monthly_rate)
                   ELSE Inf
              ELSE Inf
    ELSE calculate_months_to_goal(target_amount, current_savings,
                                  monthly_contribution, monthly_rate)

\* mutant: only an infinite number of months is capped
CapMonths_InfiniteOnly(months_needed) ==
    IF months_needed = Inf THEN -1 ELSE months_needed

\* lines 40-42: the cap for display
CapMonths(months_needed) ==
    IF months_needed = Inf \/ months_needed > display_cap_months
    THEN -1 ELSE months_needed

\* lines 44-48: the number of months charted
ChartMonths(months_needed) ==
    LET m == IF months_needed > 0 THEN months_needed
             ELSE default_chart_months
    IN  IF m < chart_cap_months THEN m ELSE chart_cap_months

\* lines 61-71
Status(months_needed, typical_months) ==
    IF months_needed > 0 /\ 10 * months_needed <= 12 * typical_months
    THEN "on_track"
    ELSE IF months_needed > 0 THEN "behind"
    ELSE "not_achievable"

StatusMessage(status) ==
    IF status = "on_track" THEN "You are on track to meet your goal!"
    ELSE IF status = "behind"
    THEN "Consider increasing monthly contribution to reach goal faster."
    ELSE "Goal may not be achievable with current parameters."

\* lines 73-79: the contribution that meets the typical time frame
RequiredContribution(a, months_needed, typical_months) ==
    IF months_needed > typical_months
    THEN calculate_required_contribution(a.target_amount, a.current_savings,
                                         MonthlyRate(a.expected_return),
                                         typical_months)
    ELSE <<a.monthly_contribution, 1>>

\* lines 51-56 and 84: the month and year of the target date
TargetDate(months_needed, today) ==
    IF months_needed > 0
    THEN Some(MonthYear(today + months_needed * 30, EpochYear))
    ELSE None

\* lines 61-94: the dictionary returned, from the values computed before
BuildResult(a, months_needed, projection, target_date, type_info) ==
    LET status == Status(months_needed, type_info.typical_months)
        last == projection[Len(projection)]
    IN  [months_needed |->
            IF months_needed > 0 THEN Some(months_needed) ELSE None,
         years_needed |->
            IF months_needed > 0 THEN Some(Round1Tenths(months_needed, 12))
            ELSE None,
         target_date |-> target_date,
         projection |-> projection,
         final_amount |->
            IF projection # <<>> THEN last.amount ELSE a.current_savings,
         total_contributions |->
            a.monthly_contribution
                * (IF months_needed > 0 THEN months_needed ELSE 0),
         interest_earned |->
            IF projection # <<>>
            THEN last.amount - a.current_savings
                 - a.monthly_contribution * Len(projection)
            ELSE 0,
         status |-> status,
         status_message |-> StatusMessage(status),
         required_contribution |->
            RoundQuotient2(RequiredContribution(a, months_needed,
                                                type_info.typical_months)),
         goal_type_info |-> type_info]

\* lines 20-42
MonthsNeeded(a) ==
    CapMonths(ComputedMonths(a.target_amount, a.current_savings,
                             a.monthly_contribution,
                             MonthlyRate(a.expected_return)))

\* lines 44-48
Projection(a, months_needed) ==
    generate_projection(a.current_savings, a.monthly_contribution,
                        MonthlyRate(a.expected_return),
                        ChartMonths(months_needed))

calculate_goal_projection(a, today) ==
    LET months_needed == MonthsNeeded(a)
    IN  BuildResult(a, months_needed, Projection(a, months_needed),
                    TargetDate(months_needed, today),
                    get_goal_type_info(a.goal_type))

----------------------------------------------------------------------------
(* The requests the handler can receive *)

Arg(t, c, m, r, g) ==
    [target_amount |-> t, current_savings |-> c, monthly_contribution |-> m,
     expected_return |-> r, goal_type |-> g]

Targets == {E(8), E(125), E(601)}
Savings == {0, E(1), E(8), E(MaxSavings)}
Contributions == {E(-8), 0, E(1), E(MaxContribution), E(16)}
Returns == {-1200, 0, 1200, 4800}
GoalTypeValues == {Some("short"), Some("mid"), Some("long"), Some("other")}

\* At a monthly rate of 100% or more the 60-month chart of a goal that is
\* already met, or of a balance that starts at zero and shrinks, leaves the
\* 32-bit integers of the model checker; those requests are left out.
Representable(a) ==
    \/ a.expected_return <= 0
    \/ /\ a.current_savings < a.target_amount
       /\ a.monthly_contribution >= 0 \/ a.current_savings > 0

GridArgs ==
    {a \in {Arg(t, c, m, r, g) : t \in Targets, c \in Savings,
                                 m \in Contributions, r \in Returns,
                                 g \in GoalTypeValues} : Representable(a)}

\* months_needed on both sides of the on_track thresholds 14.4, 43.2, 144
ThresholdArgs ==
    {Arg(E(t), 0, E(1), 0, g) : t \in {14, 15, 43, 44, 144, 145},
                               g \in GoalTypeValues}

\* target 100000, nothing saved, 5000 a month, no return, mid-term
ScenarioZeroRate == Arg(E(800000), 0, E(40000), 0, Some("mid"))

\* growth only at 400% a month from 0.25 to 31.25 = 0.25 * 5^3
PowerArgs == {Arg(E(250), E(2), 0, 4800, g) : g \in GoalTypeValues}

\* a target of 1024 at 100% a month: 13 or 14 months, or never
LateArgs ==
    {Arg(E(8192), c, m, 1200, g) : c \in {0, E(1)}, m \in {0, E(1)},
                                  g \in GoalTypeValues}

\* a positive rate too small for 1 + monthly_rate to differ from 1
TinyArgs ==
    {Arg(E(t), c, m, TinyReturn, g) : t \in {14, 125}, c \in {0, E(1)},
                                     m \in {0, E(1)}, g \in GoalTypeValues}

Requests ==
    GridArgs \cup ThresholdArgs \cup PowerArgs \cup LateArgs \cup TinyArgs
        \cup {ScenarioZeroRate}

----------------------------------------------------------------------------
(* request.form and the handler calculate() of routes/goals.py *)

\* A numeric field of the form: a string that float() converts to value,
\* a string that float() rejects, or no field at all.
Number(v) == [present |-> TRUE, numeric |-> TRUE, value |-> v]
NotANumber == [present |-> TRUE, numeric |-> FALSE, value |-> 0]
Absent == [present |-> FALSE, numeric |-> FALSE, value |-> 0]

default_amount == 0
default_expected_return == 8

\* float(request.form.get(name, default)) raises ValueError
FloatRaises(field) == field.present /\ ~field.numeric

\* float(request.form.get(name, default))
FloatOf(field, default) == IF field.present THEN field.value ELSE default

\* the form that carries the arguments a
FormOf(a) ==
    [goal_type |-> a.goal_type,
     target_amount |-> Number(a.target_amount),
     current_savings |-> Number(a.current_savings),
     monthly_contribution |-> Number(a.monthly_contribution),
     expected_return |-> Number(a.expected_return)]

\* lines 33-37: the arguments the handler passes on
HandlerArgs(f) ==
    Arg(FloatOf(f.target_amount, default_amount),
        FloatOf(f.current_savings, default_amount),
        FloatOf(f.monthly_contribution, default_amount),
        FloatOf(f.expected_return, default_expected_return),
        f.goal_type)

HandlerRaises(f) ==
    \/ FloatRaises(f.target_amount)
    \/ FloatRaises(f.current_savings)
    \/ FloatRaises(f.monthly_contribution)
    \/ FloatRaises(f.expected_return)

CompleteForms == {FormOf(a) : a \in Requests}

\* forms with a field left out or not numeric (every form of the model
\* carries expected_return: the default of 8% a year is no whole monthly
\* rate)
BaseForms ==
    {FormOf(Arg(E(t), 0, E(1), 0, Some("short"))) : t \in {14, 44}}

PartialForms ==
    UNION {{[f EXCEPT !.goal_type = None],
            [f EXCEPT !.target_amount = Absent],
            [f EXCEPT !.current_savings = Absent],
            [f EXCEPT !.monthly_contribution = Absent],
            [f EXCEPT !.target_amount = NotANumber],
            [f EXCEPT !.monthly_contribution = NotANumber],
            [f EXCEPT !.expected_return = NotANumber]} : f \in BaseForms}

Forms == CompleteForms \cup PartialForms

----------------------------------------------------------------------------
(* Kinds of goal *)

MonthsOf(a) ==
    ComputedMonths(a.target_amount, a.current_savings,
                   a.monthly_contribution, MonthlyRate(a.expected_return))

AlreadyMet(a) == a.current_savings >= a.target_amount

Unreachable(a) ==
    LET m == MonthsOf(a) IN m = Inf \/ m > display_cap_months

\* line 30 raises ZeroDivisionError: math.log(1 + monthly_rate) is 0.0
LogRaises(a) ==
    /\ a.monthly_contribution <= 0
    /\ a.current_savings < a.target_amount
    /\ MonthlyRate(a.expected_return) > 0
    /\ a.current_savings > 0
    /\ OnePlus(MonthlyRate(a.expected_return)) = 1

\* line 131 raises ZeroDivisionError: (1 + monthly_rate) ** months - 1 is 0.0
RequiredRaises(a) ==
    LET monthly_rate == MonthlyRate(a.expected_return)
        months == get_goal_type_info(a.goal_type).typical_months
    IN  /\ ~LogRaises(a)
        /\ CapMonths(MonthsOf(a)) > months
        /\ monthly_rate # 0
        /\ a.target_amount
               - a.current_savings * Pow(OnePlus(monthly_rate), months) > 0
        /\ Pow(OnePlus(monthly_rate), months) - 1 = 0

\* calculate_goal_projection raises instead of returning
Raises(a) == LogRaises(a) \/ RequiredRaises(a)

Observe(a, res) ==
    LET enc == <<res.months_needed, res.status>>
    IN  [unreachable |->
            IF Unreachable(a) THEN encodings.unreachable \cup {enc}
            ELSE encodings.unreachable,
         met |->
            IF AlreadyMet(a) THEN encodings.met \cup {enc}
            ELSE encodings.met]

----------------------------------------------------------------------------
(* Concurrent calls of calculate_goal_projection: each thread runs the
   function body in steps, with its local variables in threads[t]; the
   objects the body allocates live in lists and dicts and are held by
   reference *)

NoCall ==
    [pc |-> "idle", args |-> None, months_needed |-> 0, projection |-> 0,
     target_date |-> None, type_info |-> 0, result |-> None,
     mutated |-> FALSE]

\* calls with short trajectories, of two goal types
ThreadArgs ==
    {Arg(E(8), 0, E(MaxContribution), 0, Some("short")),
     Arg(E(8), E(1), E(1), 1200, Some("short")),
     Arg(E(44), 0, E(1), 0, None)}

\* projection = []: a new list object
ListAddress(l) == Len(l) + 1

\* mutant: the profiles are kept in one table that every call returns from
DictAddress_Shared(d, info) ==
    IF \E i \in 1..Len(d) : d[i].name = info.name
    THEN CHOOSE i \in 1..Len(d) : d[i].name = info.name
    ELSE Len(d) + 1

\* types = {...}: the dict literal builds new dict objects in every call
DictAddress(d, info) == Len(d) + 1

\* the object store with the object v at address addr
Store(objects, addr, v) ==
    IF addr > Len(objects) THEN Append(objects, v) ELSE objects

Local(t) == threads[t]

Call(t, a) ==
    /\ Local(t).pc = "idle"
    /\ threads' = [threads EXCEPT ![t] = [NoCall EXCEPT !.pc = "l20",
                                                       !.args = a]]
    /\ UNCHANGED <<lists, dicts, rvars, now, ovars>>

\* lines 20-42
StepMonths(t) ==
    /\ Local(t).pc = "l20"
    /\ threads' =
          [threads EXCEPT ![t] =
              IF LogRaises(Local(t).args) THEN [@ EXCEPT !.pc = "raised"]
              ELSE [@ EXCEPT !.pc = "l45",
                             !.months_needed = MonthsNeeded(Local(t).args)]]
    /\ UNCHANGED <<lists, dicts, rvars, now, ovars>>

\* lines 44-48
StepProjection(t) ==
    /\ Local(t).pc = "l45"
    /\ LET addr == ListAddress(lists)
       IN  /\ lists' = Store(lists, addr,
                             Projection(Local(t).args,
                                        Local(t).months_needed))
           /\ threads' = [threads EXCEPT ![t] =
                             [@ EXCEPT !.pc = "l51", !.projection = addr]]
    /\ UNCHANGED <<dicts, rvars, now, ovars>>

\* lines 50-59
StepTypeInfo(t) ==
    /\ Local(t).pc = "l51"
    /\ LET info == get_goal_type_info(Local(t).args.goal_type)
           addr == DictAddress(dicts, info)
       IN  /\ dicts' = Store(dicts, addr, info)
           /\ threads' =
                 [threads EXCEPT ![t] =
                     [@ EXCEPT !.pc = "l61",
                               !.target_date =
                                   TargetDate(Local(t).months_needed, now),
                               !.type_info = addr]]
    /\ UNCHANGED <<lists, rvars, now, ovars>>

\* lines 61-94: the result holds the list and the dict by reference
StepReturn(t) ==
    /\ Local(t).pc = "l61"
    /\ threads' =
          [threads EXCEPT ![t] =
              IF RequiredRaises(Local(t).args)
              THEN [@ EXCEPT !.pc = "raised"]
              ELSE [@ EXCEPT
                      !.pc = "returned",
                      !.result =
                          [BuildResult(Local(t).args, Local(t).months_needed,
                                       lists[Local(t).projection],
                                       Local(t).target_date,
                                       dicts[Local(t).type_info])
                             EXCEPT !.projection = Local(t).projection,
                                    !.goal_type_info = Local(t).type_info]]]
    /\ UNCHANGED <<lists, dicts, rvars, now, ovars>>

\* the caller of thread t changes the result it was given: it empties the
\* projection list and overwrites an entry of goal_type_info
Mutate(t) ==
    /\ Local(t).pc = "returned"
    /\ ~Local(t).mutated
    /\ lists' = [lists EXCEPT ![Local(t).result.projection] = <<>>]
    /\ dicts' = [dicts EXCEPT ![Local(t).result.goal_type_info] =
                                 [@ EXCEPT !.typical_months = 0]]
    /\ threads' = [threads EXCEPT ![t] = [@ EXCEPT !.mutated = TRUE]]
    /\ UNCHANGED <<rvars, now, ovars>>

NextThreads ==
    \E t \in 1..MaxThreads :
        \/ \E a \in ThreadArgs : Call(t, a)
        \/ StepMonths(t)
        \/ StepProjection(t)
        \/ StepTypeInfo(t)
        \/ StepReturn(t)
        \/ Mutate(t)

----------------------------------------------------------------------------
(* Actions *)

Init ==
    /\ pc = "idle"
    /\ form = None
    /\ args = None
    /\ result = None
    /\ now = 0
    /\ encodings = [unreachable |-> {}, met |-> {}]
    /\ previous = None
    /\ threads = [t \in 1..MaxThreads |-> NoCall]
    /\ lists = <<>>
    /\ dicts = <<>>
    /\ solved = None
    /\ clock = 0
    /\ _price_cache = <<>>
    /\ _day_change_cache = <<>>
    /\ _dividend_cache = <<>>
    /\ _corporate_cache = <<>>
    /\ latest = <<>>
    /\ call = None
    /\ holdings = <<>>
    /\ goals = <<>>
    /\ reply = None
    /\ watchlist = <<>>
    /\ flight = <<>>
    /\ answer = None

\* routes/goals.py calculate(), lines 33-37: the form fields become the
\* arguments, or float() raises ValueError and the request fails
Request(f) ==
    /\ pc = "idle"
    /\ form' = f
    /\ IF HandlerRaises(f)
       THEN pc' = "failed" /\ args' = None
       ELSE pc' = "running" /\ args' = HandlerArgs(f)
    /\ result' = None
    /\ previous' = None
    /\ UNCHANGED <<now, encodings, cvars, ovars>>

\* the call of calculate_goal_projection
Calculate ==
    /\ pc = "running"
    /\ IF Raises(args)
       THEN /\ pc' = "raised"
            /\ UNCHANGED <<result, encodings>>
       ELSE /\ pc' = "done"
            /\ result' = calculate_goal_projection(args, now)
            /\ encodings' = Observe(args, result')
    /\ UNCHANGED <<form, args, now, previous, cvars, ovars>>

\* return jsonify(result), or the error response: the request is over
Respond ==
    /\ pc \in {"done", "failed", "raised"}
    /\ pc' = "idle"
    /\ form' = None
    /\ args' = None
    /\ result' = None
    /\ previous' = None
    /\ UNCHANGED <<now, encodings, cvars, ovars>>

\* the same form is posted again: a second call with identical arguments
Retry ==
    /\ pc = "done"
    /\ pc' = "running"
    /\ previous' = result
    /\ result' = None
    /\ UNCHANGED <<form, args, now, encodings, cvars, ovars>>

\* time passes
Tick ==
    /\ now < MaxNow
    /\ now' = now + 1
    /\ UNCHANGED <<rvars, cvars, ovars>>

Next ==
    \/ \E f \in Forms : Request(f)
    \/ Calculate
    \/ Respond
    \/ Retry
    \/ Tick

Spec == Init /\ [][Next]_vars

\* the engine called from several threads at once
SpecThreads == Init /\ [][NextThreads]_vars

----------------------------------------------------------------------------
(* Properties of calculate_goal_projection *)

Done == pc = "done"

MonthlyRateOf(a) == MonthlyRate(a.expected_return)

\* C1: whenever current_savings >= target_amount, the result reports
\* months_needed = 0 and a status other than not_achievable.
C1_MetReportsZeroMonths ==
    (Done /\ AlreadyMet(args))
        => /\ result.months_needed = Some(0)
           /\ result.status # "not_achievable"

\* C2: the status is on_track exactly when 0 < months_needed and
\* months_needed <= 1.2 * typical_months (14, 43, 144 months), behind exactly
\* when months_needed is positive and above that, and not_achievable exactly
\* when the goal is unreachable.
C2_StatusByMonths ==
    Done =>
        LET m == MonthsOf(args)
            limit == IF args.goal_type = Some("short") THEN 14
                     ELSE IF args.goal_type = Some("long") THEN 144 ELSE 43
            reachable == m # Inf /\ m <= display_cap_months
        IN  /\ result.status = "on_track" <=> (reachable /\ 0 < m /\ m <= limit)
            /\ result.status = "behind" <=> (reachable /\ m > limit)
            /\ result.status = "not_achievable" <=> ~reachable

\* C3: when the computed number of months is infinite or above 600, the
\* result has months_needed, years_needed and target_date null and status
\* not_achievable; a returned months_needed is never negative and never
\* above 600.
C3_UnreachableIsNull ==
    Done =>
        /\ Unreachable(args) =>
              /\ result.months_needed = None
              /\ result.years_needed = None
              /\ result.target_date = None
              /\ result.status = "not_achievable"
        /\ result.months_needed # None =>
              /\ result.months_needed[1] >= 0
              /\ result.months_needed[1] <= 600

\* C3 witness: a goal whose computed number of months is finite and above
\* 600 was answered not_achievable.
C3_Witness ==
    /\ Done
    /\ Unreachable(args)
    /\ MonthsOf(args) # Inf
    /\ result.status = "not_achievable"

\* C4: the result for a goal that is unreachable within 600 months never has
\* the same months_needed encoding and status as the result for a goal that
\* needs 0 months because the target is already met.
C4_UnreachableDistinctFromMet ==
    encodings.unreachable \cap encodings.met = {}

\* The balance after n months by the closed form of the recurrence
\* balance <- balance * (1 + monthly_rate) + monthly_contribution.
BalanceAfter(a, n) ==
    LET rate == MonthlyRateOf(a)
        g == Pow(1 + rate, n)
    IN  IF rate = 0 \/ rate = Epsilon
        THEN a.current_savings + n * a.monthly_contribution
        ELSE IF rate > 0
        THEN a.current_savings * g + a.monthly_contribution * ((g - 1) \div rate)
        ELSE a.current_savings * g
             + a.monthly_contribution * ((1 - g) \div (-rate))

SimulatedCase(a) ==
    /\ a.monthly_contribution > 0
    /\ MonthlyRateOf(a) # 0
    /\ a.current_savings < a.target_amount

ClosedFormCase(a) ==
    /\ a.monthly_contribution > 0
    /\ MonthlyRateOf(a) = 0
    /\ a.current_savings < a.target_amount

\* C6: with a positive contribution, rate 0 and savings below the target,
\* months_needed is ceil((target - savings) / contribution), unreachable
\* only when that exceeds 600; target 100000 with 5000 a month from nothing
\* is 20 months and on_track for a mid-term goal.
C6_ZeroRateClosedForm ==
    (Done /\ ClosedFormCase(args)) =>
        LET gap == args.target_amount - args.current_savings
            pmt == args.monthly_contribution
        IN  /\ IF gap <= 600 * pmt
               THEN /\ result.months_needed # None
                    /\ result.months_needed[1] * pmt >= gap
                    /\ (result.months_needed[1] - 1) * pmt < gap
               ELSE /\ result.months_needed = None
                    /\ result.status = "not_achievable"
            /\ args = ScenarioZeroRate =>
                  /\ result.months_needed = Some(20)
                  /\ result.status = "on_track"

\* C6 witness: a zero-rate goal of several months whose gap is no multiple
\* of the contribution.
C6_Witness ==
    /\ Done
    /\ ClosedFormCase(args)
    /\ result.months_needed # None
    /\ result.months_needed[1] >= 2
    /\ (args.target_amount - args.current_savings)
           % args.monthly_contribution # 0

GrowthOnlyCase(a) ==
    /\ a.monthly_contribution <= 0
    /\ a.current_savings < a.target_amount

\* C7: with no positive contribution and savings below the target,
\* months_needed is the least n with savings * (1 + rate)^n >= target when
\* the rate and the savings are positive, and the result is not_achievable
\* in every other case.
C7_GrowthOnlyLeastMonth ==
    (Done /\ GrowthOnlyCase(args)) =>
        IF MonthlyRateOf(args) > 0 /\ args.current_savings > 0
        THEN /\ result.months_needed # None
             /\ LET n == result.months_needed[1]
                    grown(k) ==
                        args.current_savings * Pow(1 + MonthlyRateOf(args), k)
                IN  /\ grown(n) >= args.target_amount
                    /\ \A k \in 0..(n - 1) : grown(k) < args.target_amount
        ELSE result.status = "not_achievable"

FirstPoint == result.projection[1]

\* the inputs the data model calls valid: a positive target, non-negative
\* savings and a non-negative contribution
ValidInput(a) ==
    /\ a.target_amount > 0
    /\ a.current_savings >= 0
    /\ a.monthly_contribution >= 0

\* C8 as stated: for all valid inputs the trajectory is non-empty and its
\* first point has month 0, an amount equal to current_savings and interest 0.
C8_FirstPointIsSavings ==
    (Done /\ ValidInput(args)) =>
        /\ Len(result.projection) >= 1
        /\ FirstPoint.month = 0
        /\ FirstPoint.amount = args.current_savings
        /\ FirstPoint.interest = 0

\* C8 as amended: for all valid inputs the trajectory is non-empty and its
\* first point has month 0, interest 0 and an amount that is current_savings
\* rounded to the nearest cent (current_savings itself when it is a whole
\* number of cents).
C8_FirstPointIsRoundedSavings ==
    (Done /\ ValidInput(args)) =>
        /\ Len(result.projection) >= 1
        /\ FirstPoint.month = 0
        /\ FirstPoint.interest = 0
        /\ FirstPoint.amount % 2 = 0
        /\ FirstPoint.amount - args.current_savings \in -1..1
        /\ args.current_savings % 2 = 0
              => FirstPoint.amount = args.current_savings

\* C8 witness: a trajectory that starts from savings of 0.125.
C8_Witness ==
    /\ Done
    /\ ValidInput(args)
    /\ args.current_savings = E(1)
    /\ FirstPoint.amount # args.current_savings

\* the months a reachable goal needs: 0 when the target is already met
ReachableMonths(a) == IF AlreadyMet(a) THEN 0 ELSE MonthsOf(a)

Min(x, y) == IF x < y THEN x ELSE y

\* C9: for a goal reachable in 0 to 600 months the trajectory has exactly
\* one point per month 0, 1, ..., min(months_needed, 120), in increasing
\* order, each balance (reported to the cent) following from the previous
\* one by the recurrence; no trajectory has more than 121 points.
C9_OnePointPerMonth ==
    Done =>
        /\ Len(result.projection) <= 121
        /\ ~Unreachable(args) =>
              LET last == Min(ReachableMonths(args), 120)
              IN  /\ Len(result.projection) = last + 1
                  /\ \A i \in 1..(last + 1) :
                        /\ result.projection[i].month = i - 1
                        /\ result.projection[i].amount
                               = Round2(BalanceAfter(args, i - 1))

\* C10 as stated: in every point interest = amount - current_savings
\* - contributions.
C10_InterestIdentity ==
    Done =>
        \A i \in 1..Len(result.projection) :
            LET pt == result.projection[i]
            IN  pt.interest
                    = pt.amount - args.current_savings - pt.contributions

\* C10 as amended: the contributions field is current_savings plus
\* monthly_contribution * month to the cent, so it already contains the
\* principal, and in every point interest = amount - contributions to
\* within one cent (each of the three is rounded on its own).
C10_InterestIsAmountLessInvested ==
    Done =>
        \A i \in 1..Len(result.projection) :
            LET pt == result.projection[i]
                invested == args.current_savings
                                + args.monthly_contribution * pt.month
            IN  /\ pt.contributions % 2 = 0
                /\ pt.contributions - invested \in -1..1
                /\ pt.interest - (pt.amount - pt.contributions) \in -2..2

\* C10 witness: a trajectory from positive savings with a point whose
\* interest is not zero.
C10_Witness ==
    /\ Done
    /\ args.current_savings > 0
    /\ \E i \in 1..Len(result.projection) :
          /\ result.projection[i].interest # 0
          /\ result.projection[i].month > 0

GrowingCase(a) ==
    /\ a.monthly_contribution > 0
    /\ MonthlyRateOf(a) >= 0
    /\ a.current_savings >= 0

\* C11: for monthly_contribution > 0, monthly_rate >= 0 and
\* current_savings >= 0, the balance of the trajectory is non-decreasing
\* from each month to the next.
C11_BalanceNonDecreasing ==
    (Done /\ GrowingCase(args)) =>
        \A i \in 1..(Len(result.projection) - 1) :
            result.projection[i].amount <= result.projection[i + 1].amount

\* C11 witness: a trajectory of a growing balance over three months or more
\* that starts from savings above zero.
C11_Witness ==
    /\ Done
    /\ GrowingCase(args)
    /\ args.current_savings > 0
    /\ Len(result.projection) >= 4
    /\ result.projection[1].amount < result.projection[4].amount

\* amounts given in whole cents
WholeCents(a) ==
    /\ a.target_amount % 2 = 0
    /\ a.current_savings % 2 = 0
    /\ a.monthly_contribution % 2 = 0

\* C12, for valid inputs in whole cents: whenever 1 <= months_needed <= 120,
\* final_amount is the balance of the trajectory point at month
\* months_needed, it is >= target_amount and every earlier point has a
\* balance < target_amount; whenever months_needed > 120, final_amount is
\* the month-120 balance and is < target_amount.
C12_MonthsAgreeWithTrajectory ==
    (Done /\ ValidInput(args) /\ WholeCents(args)
          /\ result.months_needed # None) =>
        LET n == result.months_needed[1]
            p == result.projection
        IN  IF n <= 120
            THEN /\ Len(p) = n + 1
                 /\ p[n + 1].month = n
                 /\ result.final_amount = p[n + 1].amount
                 /\ result.final_amount >= args.target_amount
                 /\ \A i \in 1..n : p[i].amount < args.target_amount
            ELSE /\ Len(p) = 121
                 /\ p[121].month = 120
                 /\ result.final_amount = p[121].amount
                 /\ result.final_amount < args.target_amount

TypicalMonths(a) == get_goal_type_info(a.goal_type).typical_months

\* the supplied contribution reaches the target within typical_months
WithinTypical(a) ==
    AlreadyMet(a) \/ (~Unreachable(a) /\ MonthsOf(a) <= TypicalMonths(a))

\* the annuity back-solve for typical_months, to the cent
BackSolve(a) ==
    RoundQuotient2(calculate_required_contribution(
        a.target_amount, a.current_savings, MonthlyRateOf(a),
        TypicalMonths(a)))

\* C13, for valid inputs with a rate >= 0 (a rate of 0 when the goal is
\* unreachable): required_contribution is the supplied monthly_contribution
\* when the supplied contribution reaches the target within typical_months,
\* and in every other case (reached later, or unreachable with the supplied
\* contribution) it is the annuity back-solve value for typical_months.
C13_RequiredContribution ==
    (Done /\ ValidInput(args)
          /\ (MonthlyRateOf(args) = 0
                \/ (MonthlyRateOf(args) > 0 /\ ~Unreachable(args)))) =>
        IF WithinTypical(args)
        THEN result.required_contribution
                 = Round2(args.monthly_contribution)
        ELSE result.required_contribution = BackSolve(args)

\* the same request with the reported required_contribution as the monthly
\* contribution
WithRequired(a, res) ==
    [a EXCEPT !.monthly_contribution = res.required_contribution]

\* C14, for valid inputs with a rate >= 0: calling calculate_goal_projection
\* again with monthly_contribution set to the reported required_contribution
\* yields a months_needed of at most typical_months (a goal already met
\* counting as 0 months).
C14_RequiredIsSufficient ==
    (Done /\ ValidInput(args) /\ MonthlyRateOf(args) >= 0) =>
        WithinTypical(WithRequired(args, result))

\* C15, for valid inputs: two calls of calculate_goal_projection with
\* identical arguments return identical results in every output field,
\* target_date included, whenever the two calls are made.
C15_SameArgumentsSameResult ==
    (Done /\ ValidInput(args) /\ previous # None) => result = previous

\* C16: for a goal_type outside {short, mid, long}, a missing one passed as
\* None included, the whole result is the result obtained with goal_type mid
\* (by a call on the same day);
\* the profiles are short: 12 months / 4% / Low, mid: 36 / 6% / Moderate,
\* long: 120 / 10% / Higher.
C16_UnknownTypeIsMid ==
    Done =>
        LET info == result.goal_type_info
            profile == <<info.typical_months, info.recommended_return,
                         info.risk_level>>
        IN  /\ args.goal_type = Some("short") => profile = <<12, 4, "Low">>
            /\ args.goal_type = Some("long") => profile = <<120, 10, "Higher">>
            /\ args.goal_type \notin {Some("short"), Some("long")}
                  => /\ profile = <<36, 6, "Moderate">>
                     /\ \E today \in 0..now :
                            result = calculate_goal_projection(
                                [args EXCEPT !.goal_type = Some("mid")],
                                today)

\* C16 witness: a request without goal_type was answered as a mid-term goal
\* that is behind, which a short-term goal of that length would be too and a
\* long-term one would not.
C16_Witness ==
    /\ Done
    /\ args.goal_type = None
    /\ result.goal_type_info.name = "Mid-term Goal"
    /\ result.status = "behind"

\* C20: a request with a missing numeric field or a non-numeric string never
\* leads to a call of calculate_goal_projection, so the engine only receives
\* the values the user supplied.
C20_MalformedInputRejected ==
    pc \in {"running", "done"} =>
        /\ \A field \in {form.target_amount, form.current_savings,
                         form.monthly_contribution, form.expected_return} :
               field.present /\ field.numeric
        /\ args.target_amount = form.target_amount.value
        /\ args.current_savings = form.current_savings.value
        /\ args.monthly_contribution = form.monthly_contribution.value
        /\ args.expected_return = form.expected_return.value

\* growth only from savings that are not positive: the quotient
\* target_amount / current_savings or its logarithm is undefined
UndefinedGrowth(a) == GrowthOnlyCase(a) /\ a.current_savings <= 0

\* C17: for every numeric input calculate_goal_projection returns a result
\* and raises no error, and every combination that would make a logarithm or
\* a division undefined is reported as not_achievable.
C17_TotalOnNumericInput ==
    /\ pc # "raised"
    /\ (Done /\ UndefinedGrowth(args)) => result.status = "not_achievable"

\* the iterations of the while loop of calculate_months_to_goal in the call
LoopIterations(a) ==
    IF a.monthly_contribution > 0 /\ MonthlyRateOf(a) # 0
    THEN MonthsLoop(a.target_amount, a.monthly_contribution,
                    MonthlyRateOf(a), <<a.current_savings, 0>>, 10)[2]
    ELSE 0

\* C18: every call terminates: the months-to-goal loop runs at most 600
\* iterations and the trajectory loop at most 121, also for negative rates
\* and contributions that never reach the target.
C18_LoopsAreBounded ==
    Done =>
        /\ LoopIterations(args) <= 600
        /\ Len(result.projection) <= 121

\* C18 witness: a call at a negative rate whose loop ran 600 times without
\* reaching the target.
C18_Witness ==
    /\ Done
    /\ MonthlyRateOf(args) < 0
    /\ LoopIterations(args) = 600
    /\ result.status = "not_achievable"

\* the result of thread t with the objects it refers to
Returned(t) ==
    [threads[t].result EXCEPT
        !.projection = lists[threads[t].result.projection],
        !.goal_type_info = dicts[threads[t].result.goal_type_info]]

\* C19: under any interleaving of several calls, each call returns the
\* result it would return when run alone, and modifying one returned result
\* (its goal_type_info or its projection list) does not change the result
\* of any other call.
C19_CallsDoNotInterfere ==
    \A t \in 1..MaxThreads :
        (threads[t].pc = "returned" /\ ~threads[t].mutated) =>
            Returned(t) = calculate_goal_projection(threads[t].args, now)

\* C19 witness: two calls whose steps were interleaved have returned, and
\* the result of the first was modified by its caller.
C19_Witness ==
    /\ threads[1].pc = "returned"
    /\ threads[2].pc = "returned"
    /\ threads[1].mutated
    /\ ~threads[2].mutated
    /\ threads[1].args.goal_type = threads[2].args.goal_type
    /\ threads[1].result.projection < threads[2].result.projection
    /\ threads[2].result.goal_type_info < threads[1].result.goal_type_info

----------------------------------------------------------------------------
(* calculate_required_contribution called on its own *)

SolveTargets == {E(1), E(8), E(125), E(601)}
SolveSavings == {0, E(1), E(8), E(MaxSavings)}
SolveRates == {-1, 0, 1, Epsilon}
SolveMonths == {GoalTypes[g].typical_months : g \in DOMAIN GoalTypes}

\* line 131 raises ZeroDivisionError: (1 + monthly_rate) ** months - 1 is 0.0
RequiredDivisionRaises(target, current, monthly_rate, months) ==
    /\ months > 0
    /\ monthly_rate # 0
    /\ target - current * Pow(OnePlus(monthly_rate), months) > 0
    /\ Pow(OnePlus(monthly_rate), months) - 1 = 0

\* the call, with what it returned unless it raised
Solve(target, current, monthly_rate, months) ==
    /\ solved' =
          LET raised == RequiredDivisionRaises(target, current, monthly_rate,
                                               months)
          IN  [target |-> target, current |-> current,
               monthly_rate |-> monthly_rate, months |-> months,
               raised |-> raised,
               value |-> IF raised THEN None
                         ELSE calculate_required_contribution(
                                  target, current, monthly_rate, months)]
    /\ UNCHANGED <<rvars, now, cvars, mvars, dvars>>

\* at 100% a month only 12 months of growth stay within 32-bit integers
NextRequired ==
    \E target \in SolveTargets, current \in SolveSavings,
       monthly_rate \in SolveRates, months \in SolveMonths :
        /\ monthly_rate = 1 => months = 12
        /\ Solve(target, current, monthly_rate, months)

SpecRequired == Init /\ [][NextRequired]_vars

\* C21: for every target, current savings, monthly rate and
\* n = typical_months > 0, calculate_required_contribution returns a value
\* >= 0, also when the current savings exceed the target; at rate 0 the
\* value is (target - current) / n.
C21_RequiredNeverNegative ==
    (solved # None /\ ~solved.raised) =>
        /\ solved.value[2] > 0
        /\ solved.value[1] >= 0
        /\ solved.monthly_rate = 0 =>
               solved.value = <<solved.target - solved.current, solved.months>>

\* C24, for valid inputs in whole cents with a rate >= 0: in every result interest_earned
\* equals the interest recorded in the last trajectory point, that is
\* final_amount - current_savings - monthly_contribution * (month of the
\* last point).
C24_InterestEarnedIsLastInterest ==
    (Done /\ ValidInput(args) /\ WholeCents(args)
          /\ MonthlyRateOf(args) >= 0) =>
        LET last == result.projection[Len(result.projection)]
        IN  /\ result.interest_earned = last.interest
            /\ result.interest_earned
                   = result.final_amount - args.current_savings
                         - args.monthly_contribution * last.month

----------------------------------------------------------------------------
(* Strings are sequences of characters, so that upper(), strip() and
   endswith() are what they are in Python. *)

\* the letters that occur in the symbols of the model
LowerCase == <<"a", "b", "c", "e", "l", "n", "o", "p", "s", "t", "w">>
UpperCase == <<"A", "B", "C", "E", "L", "N", "O", "P", "S", "T", "W">>

\* str.upper()
upper(s) ==
    [i \in 1..Len(s) |->
        IF \E k \in 1..Len(LowerCase) : LowerCase[k] = s[i]
        THEN UpperCase[CHOOSE k \in 1..Len(LowerCase) : LowerCase[k] = s[i]]
        ELSE s[i]]

\* str.strip()
RECURSIVE strip(_)
strip(s) ==
    IF s = <<>> THEN s
    ELSE IF Head(s) = " " THEN strip(Tail(s))
    ELSE IF s[Len(s)] = " " THEN strip(SubSeq(s, 1, Len(s) - 1))
    ELSE s

\* str.endswith(suffix)
endswith(s, suffix) ==
    /\ Len(s) >= Len(suffix)
    /\ SubSeq(s, Len(s) - Len(suffix) + 1, Len(s)) = suffix

DotNS == <<".", "N", "S">>
DotBO == <<".", "B", "O">>

\* 'TCS.NS' and 'NEWCO.NS'
TCS_NS == <<"T", "C", "S">> \o DotNS
NEWCO_NS == <<"N", "E", "W", "C", "O">> \o DotNS

----------------------------------------------------------------------------
(* services/stock_service.py: the market-data caches.  The prices the
   provider gives are in thousandths of a rupee; the prices cached and
   returned are in hundredths, as round(price, 2) leaves them. *)

MaxClock == 2       \* the steps the clock may advance
ClockStep == 150    \* the seconds in one step of the clock

_cache_ttl == 300
_day_change_cache_ttl == 300
_dividend_cache_ttl == 3600
_corporate_cache_ttl == 3600

\* a symbol that STOCK_DATA lists and one that it does not
Symbols == {TCS_NS, NEWCO_NS}

\* the entry of STOCK_DATA for the listed symbol, its price in hundredths
STOCK_DATA ==
    [symbol \in {TCS_NS} |->
        [name |-> "Tata Consultancy Services", sector |-> "Technology",
         price |-> 385000]]

\* d[k] = v on a dict (the empty dict is <<>>)
Put(d, k, v) == [x \in DOMAIN d \cup {k} |-> IF x = k THEN v ELSE d[x]]

\* round(x, 2) for x in thousandths, in hundredths (no amount of the model
\* lies halfway between two hundredths)
RoundCents(x) == (x + 5) \div 10

SymbolsOf(symbols) == {symbols[i] : i \in 1..Len(symbols)}

----------------------------------------------------------------------------
(* The market-data provider (yfinance) *)

\* the market price of a symbol at time t: it moves as time passes
Quote(symbol, t) ==
    (IF symbol \in DOMAIN STOCK_DATA THEN 3851234 ELSE 120006) + t

\* ticker.fast_info: reading it raises, or it has a last_price and a
\* previous_close, each of which may be missing or zero (0)
FastInfo(last_price, previous_close) ==
    [raises |-> FALSE, last_price |-> last_price,
     previous_close |-> previous_close]

RaisesAnswer == [raises |-> TRUE, last_price |-> 0, previous_close |-> 0]
NoAnswer == FastInfo(0, 0)

\* a price that rounds to 0.00
TinyPrice == 4

\* what the provider may answer for a symbol at time t: an error, the quote,
\* only the previous close, a price below half a paisa, nothing, or a
\* negative price
Answers(symbol, t) ==
    {RaisesAnswer,
     FastInfo(Quote(symbol, t), Quote(symbol, t) - 1000),
     FastInfo(0, Quote(symbol, t) - 1000),
     FastInfo(TinyPrice, 0),
     NoAnswer,
     FastInfo(-Quote(symbol, t), Quote(symbol, t) - 1000)}

\* one answer for each symbol of S
AnswerDicts(S, t) ==
    {f \in [S -> UNION {Answers(s, t) : s \in S}] :
        \A s \in S : f[s] \in Answers(s, t)}

\* yf.Tickers(...) for the symbols S: it raises, or gives a ticker for each
Batches(S, t) ==
    {[raises |-> FALSE, infos |-> f] : f \in AnswerDicts(S, t)}
        \cup (IF S = {} THEN {} ELSE {[raises |-> TRUE, infos |-> <<>>]})

\* ticker.info: reading it raises, or it is a dict with longName and
\* dividendRate (0: missing)
InfoAnswers ==
    {[raises |-> TRUE, longName |-> "", dividendRate |-> 0],
     [raises |-> FALSE, longName |-> "Tata Consultancy Services Limited",
      dividendRate |-> 73004]}

\* the price the provider gave: last_price, or previous_close when there is
\* no last_price
Offered(info) ==
    IF info.last_price # 0 THEN info.last_price ELSE info.previous_close

\* the fetch failed: the provider raised, gave no price, or gave a
\* non-positive price
Failure(info) == info.raises \/ Offered(info) <= 0

\* latest after the provider gave the answers (a dict by symbol) at time t
Learn(l, answers, t) ==
    LET good == {s \in DOMAIN answers : ~Failure(answers[s])}
    IN  [s \in DOMAIN l \cup good |->
            IF s \in good
            THEN [price |-> RoundCents(Offered(answers[s])), at |-> t]
            ELSE l[s]]

----------------------------------------------------------------------------
(* The price cache *)

\* mutant: an entry is served until it is older than the time to live
_get_cached_price_Inclusive(cache, symbol, t) ==
    IF symbol \in DOMAIN cache /\ t - cache[symbol].timestamp <= _cache_ttl
    THEN Some(cache[symbol].price)
    ELSE None

_get_cached_price(cache, symbol, t) ==
    IF symbol \in DOMAIN cache /\ t - cache[symbol].timestamp < _cache_ttl
    THEN Some(cache[symbol].price)
    ELSE None

_set_cached_price(cache, symbol, price, t) ==
    Put(cache, symbol, [price |-> price, timestamp |-> t])

\* lines 140-145 and 181-187: the price read from fast_info (0: None)
CurrentPrice(info) ==
    IF info.last_price # 0 THEN info.last_price
    ELSE IF info.previous_close # 0 THEN info.previous_close
    ELSE 0

\* lines 147 and 188: if current_price and current_price > 0
Usable(current_price) == current_price # 0 /\ current_price > 0

\* the symbols of S without a cached price that is still valid
ToFetch(cache, S, t) ==
    {s \in S : _get_cached_price(cache, s, t) = None}

\* fetch_real_time_price(symbol) when the provider answers info: the price
\* returned (None when there is none) and the cache afterwards
fetch_real_time_price(cache, symbol, info, t) ==
    LET cached == _get_cached_price(cache, symbol, t)
        current_price == CurrentPrice(info)
    IN  IF cached # None
        THEN [price |-> cached, cache |-> cache]
        ELSE IF ~info.raises /\ Usable(current_price)
        THEN [price |-> Some(RoundCents(current_price)),
              cache |-> _set_cached_price(cache, symbol,
                                          RoundCents(current_price), t)]
        ELSE [price |-> None, cache |-> cache]

\* mutant: an error for one symbol ends the loop over the batch
fetch_multiple_stocks_StopAtError(cache, symbols, batch, t) ==
    LET requested == SymbolsOf(symbols)
        symbols_to_fetch == ToFetch(cache, requested, t)
        failed == batch.raises
                      \/ \E s \in symbols_to_fetch : batch.infos[s].raises
        fetched ==
            IF failed THEN {}
            ELSE {s \in symbols_to_fetch : Usable(CurrentPrice(batch.infos[s]))}
        price(s) ==
            IF s \in fetched THEN RoundCents(CurrentPrice(batch.infos[s]))
            ELSE _get_cached_price(cache, s, t)[1]
    IN  [prices |->
            [s \in (requested \ symbols_to_fetch) \cup fetched |-> price(s)],
         cache |->
            [s \in DOMAIN cache \cup fetched |->
                IF s \in fetched
                THEN _set_cached_price(cache, s, price(s), t)[s]
                ELSE cache[s]]]

\* fetch_multiple_stocks(symbols) when the provider answers batch: the
\* prices returned and the cache afterwards.  The two loops are over the
\* symbols of the list; each symbol is handled on its own, so their effect
\* is given symbol by symbol.
fetch_multiple_stocks(cache, symbols, batch, t) ==
    LET requested == SymbolsOf(symbols)
        symbols_to_fetch == ToFetch(cache, requested, t)
        fetched ==
            IF batch.raises THEN {}
            ELSE {s \in symbols_to_fetch :
                     /\ ~batch.infos[s].raises
                     /\ Usable(CurrentPrice(batch.infos[s]))}
        price(s) ==
            IF s \in fetched THEN RoundCents(CurrentPrice(batch.infos[s]))
            ELSE _get_cached_price(cache, s, t)[1]
    IN  [prices |->
            [s \in (requested \ symbols_to_fetch) \cup fetched |-> price(s)],
         cache |->
            [s \in DOMAIN cache \cup fetched |->
                IF s \in fetched
                THEN _set_cached_price(cache, s, price(s), t)[s]
                ELSE cache[s]]]

\* mutant: a price of 0.00 counts as a real price
HasRealPrice_Zero(real_prices, symbol) == symbol \in DOMAIN real_prices

\* line 220: the symbol has a real price (0.0 counts as none)
HasRealPrice(real_prices, symbol) ==
    symbol \in DOMAIN real_prices /\ real_prices[symbol] # 0

\* lines 218-231 for one symbol: real is the result of the batch fetch,
\* single that of the fetch of this symbol alone
PriceOf(symbol, real, single, variation, placeholder) ==
    IF HasRealPrice(real.prices, symbol) THEN real.prices[symbol]
    ELSE IF symbol \in DOMAIN STOCK_DATA
    THEN RoundCents((STOCK_DATA[symbol].price * (100 + variation)) \div 10)
    ELSE IF single.price # None /\ single.price[1] # 0 THEN single.price[1]
    ELSE placeholder

\* the symbols get_current_prices fetches one by one after the batch
Individually(real, S) ==
    {s \in S : ~HasRealPrice(real.prices, s) /\ s \notin DOMAIN STOCK_DATA}

\* get_current_prices(symbols), a list without repetitions: the prices
\* returned and the cache afterwards
get_current_prices(cache, symbols, batch, retry, variation, placeholder, t) ==
    LET real == fetch_multiple_stocks(cache, symbols, batch, t)
        alone == Individually(real, SymbolsOf(symbols))
        info(s) == IF s \in DOMAIN retry THEN retry[s] ELSE NoAnswer
        single(s) == fetch_real_time_price(real.cache, s, info(s), t)
        stored == {s \in alone : s \in DOMAIN single(s).cache}
    IN  IF symbols = <<>> THEN [prices |-> <<>>, cache |-> cache]
        ELSE [prices |->
                 [s \in SymbolsOf(symbols) |->
                     PriceOf(s, real, single(s), variation, placeholder)],
              cache |->
                 [s \in DOMAIN real.cache \cup stored |->
                     IF s \in stored THEN single(s).cache[s]
                     ELSE real.cache[s]]]

----------------------------------------------------------------------------
(* The day-change, dividend and corporate-action caches *)

\* the symbols of S without a valid entry in a cache with time to live ttl
Expired(cache, S, ttl, t) ==
    {s \in S : ~(s \in DOMAIN cache /\ t - cache[s].timestamp < ttl)}

\* lines 295-302: change_pct is in hundredths of a percent
DayData(current_price, previous_close) ==
    LET change == current_price - previous_close
    IN  [current |-> RoundCents(current_price),
         previous_close |-> RoundCents(previous_close),
         change |-> RoundCents(change),
         change_pct |->
            IF previous_close > 0
            THEN (2 * 10000 * change + previous_close)
                     \div (2 * previous_close)
            ELSE 0]

NoChange(current) ==
    [current |-> current, previous_close |-> 0, change |-> 0,
     change_pct |-> 0]

\* get_day_changes(symbols), a non-empty list: the changes returned and the
\* cache afterwards
get_day_changes(cache, symbols, batch, t) ==
    LET requested == SymbolsOf(symbols)
        symbols_to_fetch == Expired(cache, requested, _day_change_cache_ttl, t)
        asked == IF batch.raises THEN {} ELSE symbols_to_fetch
        info(s) == batch.infos[s]
        known(s) ==
            /\ ~info(s).raises
            /\ CurrentPrice(info(s)) # 0
            /\ info(s).previous_close # 0
        cached == {s \in asked : known(s)}
        data(s) ==
            IF s \notin symbols_to_fetch THEN cache[s].data
            ELSE IF info(s).raises THEN NoChange(0)
            ELSE IF known(s)
            THEN DayData(CurrentPrice(info(s)), info(s).previous_close)
            ELSE NoChange(RoundCents(CurrentPrice(info(s))))
    IN  [changes |->
            [s \in (requested \ symbols_to_fetch) \cup asked |-> data(s)],
         cache |->
            [s \in DOMAIN cache \cup cached |->
                IF s \in cached THEN [data |-> data(s), timestamp |-> t]
                ELSE cache[s]]]

\* get_dividend_info(symbols), a non-empty list, when the provider answers
\* infos: the dividends returned and the cache afterwards
get_dividend_info(cache, symbols, infos, t) ==
    LET requested == SymbolsOf(symbols)
        symbols_to_fetch == Expired(cache, requested, _dividend_cache_ttl, t)
        dividend(s) ==
            IF s \notin symbols_to_fetch THEN cache[s].dividend
            ELSE IF infos[s].raises THEN 0
            ELSE RoundCents(infos[s].dividendRate)
    IN  [dividends |-> [s \in requested |-> dividend(s)],
         cache |->
            [s \in DOMAIN cache \cup symbols_to_fetch |->
                IF s \in symbols_to_fetch
                THEN [dividend |-> dividend(s), timestamp |-> t]
                ELSE cache[s]]]

\* get_corporate_actions(symbol) when the provider answers info: the data
\* returned and the cache afterwards
get_corporate_actions(cache, symbol, info, t) ==
    LET corporate_data ==
            [symbol |-> symbol, company_name |-> info.longName,
             dividend_rate |-> RoundCents(info.dividendRate)]
    IN  IF Expired(cache, {symbol}, _corporate_cache_ttl, t) = {}
        THEN [data |-> cache[symbol].data, cache |-> cache]
        ELSE IF info.raises
        THEN [data |-> [symbol |-> symbol, company_name |-> symbol,
                        error |-> TRUE],
              cache |-> cache]
        ELSE [data |-> corporate_data,
              cache |-> Put(cache, symbol,
                            [data |-> corporate_data, timestamp |-> t])]

\* mutant: every cache of the module is emptied
clear_price_cache_All(caches) ==
    [price |-> <<>>, day_change |-> <<>>, dividend |-> <<>>,
     corporate |-> <<>>]

\* clear_price_cache(): the four caches afterwards
clear_price_cache(caches) == [caches EXCEPT !.price = <<>>]

----------------------------------------------------------------------------
(* The calls of the functions of stock_service.py.  A call is one step; the
   record of the call stays in call until the caller has taken the result. *)

SymbolLists == {<<>>, <<TCS_NS>>, <<NEWCO_NS>>, <<TCS_NS, NEWCO_NS>>}

\* the holdings whose day change, dividend and corporate actions are shown
ListedLists == {<<TCS_NS>>}

\* the two ends of what random.uniform draws in get_current_prices:
\* uniform(-0.02, 0.02) in percent, round(uniform(50, 500), 2) in hundredths
Randoms ==
    {[variation |-> -2, placeholder |-> 5000],
     [variation |-> 2, placeholder |-> 50000]}

\* the record of a call: the list of symbols given, the symbols the provider
\* was asked about, whether the batch request raised, the answers of the
\* provider to the batch and to the fetches one by one, and what the call
\* returned
Called(op, symbols, contacted, raised, answers, retry, returned) ==
    [op |-> op, symbols |-> symbols, contacted |-> contacted,
     raised |-> raised, answers |-> answers, retry |-> retry,
     returned |-> returned]

\* the answers given for the symbols of S
Given(infos, S) == [s \in S |-> infos[s]]

FetchRealTimePrice(symbol, info) ==
    LET asked == ToFetch(_price_cache, {symbol}, clock)
        r == fetch_real_time_price(_price_cache, symbol, info, clock)
    IN  /\ call = None
        /\ _price_cache' = r.cache
        /\ latest' = Learn(latest, [s \in asked |-> info], clock)
        /\ call' = Called("fetch_real_time_price", <<symbol>>, asked, FALSE,
                          [s \in asked |-> info], <<>>,
                          IF r.price = None THEN <<>>
                          ELSE Put(<<>>, symbol, r.price[1]))
        /\ UNCHANGED <<clock, _day_change_cache, _dividend_cache,
                       _corporate_cache>>
        /\ UNCHANGED <<rvars, now, cvars, solved, dvars>>

\* the batch request is made, and can raise, only when there is a symbol to
\* fetch
BatchRaised(batch, asked) == batch.raises /\ asked # {}

FetchMultipleStocks(symbols, batch) ==
    LET asked == ToFetch(_price_cache, SymbolsOf(symbols), clock)
        answers == IF batch.raises THEN <<>> ELSE Given(batch.infos, asked)
        r == fetch_multiple_stocks(_price_cache, symbols, batch, clock)
    IN  /\ call = None
        /\ _price_cache' = r.cache
        /\ latest' = Learn(latest, answers, clock)
        /\ call' = Called("fetch_multiple_stocks", symbols, asked,
                          BatchRaised(batch, asked), answers, <<>>, r.prices)
        /\ UNCHANGED <<clock, _day_change_cache, _dividend_cache,
                       _corporate_cache>>
        /\ UNCHANGED <<rvars, now, cvars, solved, dvars>>

GetCurrentPrices(symbols, batch, retry, random) ==
    LET asked == ToFetch(_price_cache, SymbolsOf(symbols), clock)
        answers == IF batch.raises THEN <<>> ELSE Given(batch.infos, asked)
        real == fetch_multiple_stocks(_price_cache, symbols, batch, clock)
        again == ToFetch(real.cache,
                         Individually(real, SymbolsOf(symbols)), clock)
        r == get_current_prices(_price_cache, symbols, batch, retry,
                                random.variation, random.placeholder, clock)
    IN  /\ call = None
        /\ _price_cache' = r.cache
        /\ latest' = Learn(Learn(latest, answers, clock),
                           Given(retry, again), clock)
        /\ call' = Called("get_current_prices", symbols, asked \cup again,
                          BatchRaised(batch, asked), answers,
                          Given(retry, again), r.prices)
        /\ UNCHANGED <<clock, _day_change_cache, _dividend_cache,
                       _corporate_cache>>
        /\ UNCHANGED <<rvars, now, cvars, solved, dvars>>

GetDayChanges(symbols, batch) ==
    LET asked == Expired(_day_change_cache, SymbolsOf(symbols),
                         _day_change_cache_ttl, clock)
        r == get_day_changes(_day_change_cache, symbols, batch, clock)
    IN  /\ call = None
        /\ _day_change_cache' = r.cache
        /\ call' = Called("get_day_changes", symbols, asked,
                          BatchRaised(batch, asked),
                          IF batch.raises THEN <<>>
                          ELSE Given(batch.infos, asked),
                          <<>>, r.changes)
        /\ UNCHANGED <<clock, _price_cache, latest, _dividend_cache,
                       _corporate_cache>>
        /\ UNCHANGED <<rvars, now, cvars, solved, dvars>>

GetDividendInfo(symbols, infos) ==
    LET asked == Expired(_dividend_cache, SymbolsOf(symbols),
                         _dividend_cache_ttl, clock)
        r == get_dividend_info(_dividend_cache, symbols, infos, clock)
    IN  /\ call = None
        /\ _dividend_cache' = r.cache
        /\ call' = Called("get_dividend_info", symbols, asked, FALSE,
                          Given(infos, asked), <<>>, r.dividends)
        /\ UNCHANGED <<clock, _price_cache, latest, _day_change_cache,
                       _corporate_cache>>
        /\ UNCHANGED <<rvars, now, cvars, solved, dvars>>

GetCorporateActions(symbol, info) ==
    LET asked == Expired(_corporate_cache, {symbol}, _corporate_cache_ttl,
                         clock)
        r == get_corporate_actions(_corporate_cache, symbol, info, clock)
    IN  /\ call = None
        /\ _corporate_cache' = r.cache
        /\ call' = Called("get_corporate_actions", <<symbol>>, asked, FALSE,
                          [s \in asked |-> info], <<>>,
                          Put(<<>>, symbol, r.data))
        /\ UNCHANGED <<clock, _price_cache, latest, _day_change_cache,
                       _dividend_cache>>
        /\ UNCHANGED <<rvars, now, cvars, solved, dvars>>

ClearPriceCache ==
    LET caches == clear_price_cache(
                      [price |-> _price_cache,
                       day_change |-> _day_change_cache,
                       dividend |-> _dividend_cache,
                       corporate |-> _corporate_cache])
    IN  /\ call = None
        /\ _price_cache' = caches.price
        /\ _day_change_cache' = caches.day_change
        /\ _dividend_cache' = caches.dividend
        /\ _corporate_cache' = caches.corporate
        /\ latest' = <<>>
        /\ call' = Called("clear_price_cache", <<>>, {}, FALSE, <<>>, <<>>,
                          <<>>)
        /\ UNCHANGED <<clock, rvars, now, cvars, solved, dvars>>

\* the caller has the result of the call
Return ==
    /\ call # None
    /\ call' = None
    /\ UNCHANGED <<clock, _price_cache, _day_change_cache, _dividend_cache,
                   _corporate_cache, latest>>
    /\ UNCHANGED <<rvars, now, cvars, solved, dvars>>

\* time passes between two calls
Elapse ==
    /\ call = None
    /\ clock + ClockStep <= MaxClock * ClockStep
    /\ clock' = clock + ClockStep
    /\ UNCHANGED <<_price_cache, _day_change_cache, _dividend_cache,
                   _corporate_cache, latest, call>>
    /\ UNCHANGED <<rvars, now, cvars, solved, dvars>>

\* the symbols of a list that STOCK_DATA does not list
Unlisted(symbols) == SymbolsOf(symbols) \ DOMAIN STOCK_DATA

\* the price cache alone, with every answer the provider may give
NextCache ==
    \/ \E symbol \in Symbols :
           \E info \in Answers(symbol, clock) :
               FetchRealTimePrice(symbol, info)
    \/ \E symbols \in SymbolLists :
           \E batch \in Batches(SymbolsOf(symbols), clock) :
               FetchMultipleStocks(symbols, batch)
    \/ \E symbols \in SymbolLists, random \in Randoms :
           \E batch \in Batches(SymbolsOf(symbols), clock),
              retry \in AnswerDicts(Unlisted(symbols), clock) :
               GetCurrentPrices(symbols, batch, retry, random)
    \/ ClearPriceCache
    \/ Return
    \/ Elapse

SpecCache == Init /\ [][NextCache]_vars

\* the provider answers with the quote, raises, or has nothing
PlainAnswers(symbol, t) ==
    {RaisesAnswer, FastInfo(Quote(symbol, t), Quote(symbol, t) - 1000),
     NoAnswer}

Plain(infos, t) == \A s \in DOMAIN infos : infos[s] \in PlainAnswers(s, t)

\* the four caches together, for the holdings shown, with the plain answers
\* of the provider
NextCaches ==
    \/ \E symbol \in Symbols :
           \E info \in PlainAnswers(symbol, clock) :
               FetchRealTimePrice(symbol, info)
    \/ \E symbols \in ListedLists :
           \E batch \in Batches(SymbolsOf(symbols), clock) :
               Plain(batch.infos, clock) /\ FetchMultipleStocks(symbols, batch)
    \/ \E symbols \in ListedLists, random \in Randoms :
           \E batch \in Batches(SymbolsOf(symbols), clock) :
               /\ Plain(batch.infos, clock)
               /\ GetCurrentPrices(symbols, batch, <<>>, random)
    \/ \E symbols \in ListedLists :
           \E batch \in Batches(SymbolsOf(symbols), clock) :
               Plain(batch.infos, clock) /\ GetDayChanges(symbols, batch)
    \/ \E symbols \in ListedLists :
           \E infos \in [SymbolsOf(symbols) -> InfoAnswers] :
               GetDividendInfo(symbols, infos)
    \/ \E symbols \in ListedLists, info \in InfoAnswers :
           GetCorporateActions(symbols[1], info)
    \/ ClearPriceCache
    \/ Return
    \/ Elapse

SpecCaches == Init /\ [][NextCaches]_vars


----------------------------------------------------------------------------
(* Claims about the price cache *)

\* a price was stored for the symbol less than _cache_ttl seconds ago and the
\* cache was not cleared since
FreshlyStored(symbol) ==
    symbol \in DOMAIN latest /\ clock - latest[symbol].at < _cache_ttl

\* a step that is a call of one of the functions named
CallOf(ops) == call = None /\ call' # None /\ call'.op \in ops

FetchOps == {"fetch_real_time_price", "fetch_multiple_stocks"}

\* C22: the price cache never serves a stale value: at the start of every
\* call _get_cached_price gives a price for a symbol exactly when a price was
\* stored for it less than 300 seconds earlier with no clearing of the cache
\* since, and then it is that price; fetch_real_time_price and
\* fetch_multiple_stocks contact the provider for exactly the symbols asked
\* for that have no such entry.
C22_NeverStale ==
    [][(call = None /\ call' # None) =>
          /\ \A s \in Symbols :
                 _get_cached_price(_price_cache, s, clock)
                     = IF FreshlyStored(s) THEN Some(latest[s].price)
                       ELSE None
          /\ call'.op \in FetchOps =>
                 call'.contacted
                     = {s \in SymbolsOf(call'.symbols) : ~FreshlyStored(s)}
      ]_vars

\* a batch call has served one symbol from an entry 150 seconds old and has
\* contacted the provider for the other, whose entry was 300 seconds old
C22_Witness ==
    /\ call # None
    /\ call.op = "fetch_multiple_stocks"
    /\ call.symbols = <<TCS_NS, NEWCO_NS>>
    /\ call.contacted = {TCS_NS}
    /\ NEWCO_NS \in DOMAIN call.returned
    /\ clock - _price_cache[NEWCO_NS].timestamp = ClockStep
    /\ TCS_NS \in DOMAIN latest
    /\ TCS_NS \notin DOMAIN call.returned

\* the answers of the provider in the call, to the batch and one by one
AnswersOf(c) ==
    [s \in DOMAIN c.answers \cup DOMAIN c.retry |->
        IF s \in DOMAIN c.retry THEN c.retry[s] ELSE c.answers[s]]

\* the entry of a cache for a symbol is as it was, or was stored in this step
KeptOrStored(before, after, s) ==
    /\ s \in DOMAIN after
    /\ \/ after[s] = before[s]
       \/ after[s].timestamp = clock /\ after[s].timestamp >= before[s].timestamp

NoEviction(before, after) ==
    \A s \in DOMAIN before : KeptOrStored(before, after, s)

\* C23: the market-data caches have no eviction: no call other than
\* clear_price_cache removes an entry from any of the four caches, an entry
\* of the price cache changes only by a store of this moment for its symbol
\* after a good answer of the provider (an expired entry that was read stays
\* as it was), and clear_price_cache empties the price cache and leaves the
\* day-change, dividend and corporate-action caches unchanged.
C23_NoEviction ==
    [][/\ CallOf({"clear_price_cache"}) =>
              /\ _price_cache' = <<>>
              /\ UNCHANGED <<_day_change_cache, _dividend_cache,
                             _corporate_cache>>
       /\ ~CallOf({"clear_price_cache"}) =>
              /\ NoEviction(_price_cache, _price_cache')
              /\ NoEviction(_day_change_cache, _day_change_cache')
              /\ NoEviction(_dividend_cache, _dividend_cache')
              /\ NoEviction(_corporate_cache, _corporate_cache')
              /\ \A s \in DOMAIN _price_cache :
                     _price_cache'[s] # _price_cache[s] =>
                         /\ call' # None
                         /\ s \in DOMAIN AnswersOf(call')
                         /\ ~Failure(AnswersOf(call')[s])
      ]_vars

\* a fetch has read an expired entry of the price cache, the provider has
\* failed, and the entry is still there, while the other three caches hold
\* entries
C23_Witness ==
    /\ call # None
    /\ call.op = "fetch_real_time_price"
    /\ call.contacted = {TCS_NS}
    /\ call.returned = <<>>
    /\ TCS_NS \in DOMAIN _price_cache
    /\ clock - _price_cache[TCS_NS].timestamp >= _cache_ttl
    /\ _day_change_cache # <<>>
    /\ _dividend_cache # <<>>
    /\ _corporate_cache # <<>>

\* the entry of the cache for a symbol, None when there is none
EntryOf(cache, s) == IF s \in DOMAIN cache THEN Some(cache[s]) ELSE None

\* C25: a failed price fetch is never cached: in a call of
\* fetch_real_time_price or fetch_multiple_stocks, a symbol for which the
\* provider raises, has no price or has a non-positive price is not in the
\* result (fetch_real_time_price returns None), its entry of the price cache
\* is as before, and a call for it now or later contacts the provider again;
\* when the batch request itself raises nothing is stored; and every other
\* symbol the provider was asked about is returned and cached with its
\* rounded price, whatever happened to the rest of the batch.
C25_FailureNotCached ==
    [][CallOf(FetchOps) =>
          /\ \A s \in call'.contacted :
                 (call'.raised \/ Failure(call'.answers[s])) =>
                     /\ s \notin DOMAIN call'.returned
                     /\ EntryOf(_price_cache', s) = EntryOf(_price_cache, s)
                     /\ \A k \in 0..MaxClock :
                            ToFetch(_price_cache', {s}, clock + k * ClockStep)
                                = {s}
          /\ call'.raised => _price_cache' = _price_cache
          /\ \A s \in DOMAIN call'.answers :
                 ~Failure(call'.answers[s]) =>
                     /\ s \in DOMAIN call'.returned
                     /\ call'.returned[s]
                            = RoundCents(Offered(call'.answers[s]))
                     /\ _price_cache'[s]
                            = [price |-> call'.returned[s],
                               timestamp |-> clock]
      ]_vars

\* a batch in which the provider raised for one symbol and gave a price for
\* the other: the other is returned and cached, the failed one is neither
C25_Witness ==
    /\ call # None
    /\ call.op = "fetch_multiple_stocks"
    /\ call.contacted = {TCS_NS, NEWCO_NS}
    /\ ~call.raised
    /\ call.answers[TCS_NS].raises
    /\ ~Failure(call.answers[NEWCO_NS])
    /\ DOMAIN call.returned = {NEWCO_NS}
    /\ DOMAIN _price_cache = {NEWCO_NS}

\* the real price of a symbol in a call: the price of its fresh entry of the
\* cache, else the price the provider gives for it in the batch
RealPrice(s, answers) ==
    IF FreshlyStored(s) THEN Some(latest[s].price)
    ELSE IF s \in DOMAIN answers /\ ~Failure(answers[s])
    THEN Some(RoundCents(Offered(answers[s])))
    ELSE None

\* a price within 2% of the base price of STOCK_DATA
NearBase(price, s) ==
    /\ 100 * price >= 98 * STOCK_DATA[s].price
    /\ 100 * price <= 102 * STOCK_DATA[s].price

\* 50.00 to 500.00
PlaceholderRange == 5000..50000

\* what get_current_prices gives for a symbol without a real price: for a
\* symbol of STOCK_DATA a price near the base price, else the price of the
\* fetch of the symbol alone, else a placeholder
Fallback(price, s, retry) ==
    IF s \in DOMAIN STOCK_DATA THEN NearBase(price, s)
    ELSE IF s \in DOMAIN retry /\ ~Failure(retry[s])
            /\ RoundCents(Offered(retry[s])) # 0
    THEN price = RoundCents(Offered(retry[s]))
    ELSE price \in PlaceholderRange

\* C26 as stated: get_current_prices returns an entry with a price > 0 for
\* every symbol asked for, and the price is the fresh or cached real price
\* whenever there is one, else the fallback.
C26_RealPriceIfOneExists ==
    [][CallOf({"get_current_prices"}) =>
          /\ DOMAIN call'.returned = SymbolsOf(call'.symbols)
          /\ \A s \in SymbolsOf(call'.symbols) :
                 /\ call'.returned[s] > 0
                 /\ IF RealPrice(s, call'.answers) # None
                    THEN call'.returned[s] = RealPrice(s, call'.answers)[1]
                    ELSE Fallback(call'.returned[s], s, call'.retry)
      ]_vars

\* C26: get_current_prices returns an entry with a price > 0 for every
\* symbol asked for, whatever the cache holds and whatever the provider
\* does: the fresh or cached real price when there is one that is not 0.00
\* after rounding to 2 decimals, else a price within 2% of the base price
\* for a symbol of STOCK_DATA, else the price of an individual fetch, else a
\* placeholder between 50 and 500.
C26_PriceForEverySymbol ==
    [][CallOf({"get_current_prices"}) =>
          /\ DOMAIN call'.returned = SymbolsOf(call'.symbols)
          /\ \A s \in SymbolsOf(call'.symbols) :
                 /\ call'.returned[s] > 0
                 /\ IF /\ RealPrice(s, call'.answers) # None
                       /\ RealPrice(s, call'.answers)[1] # 0
                    THEN call'.returned[s] = RealPrice(s, call'.answers)[1]
                    ELSE Fallback(call'.returned[s], s, call'.retry)
      ]_vars

\* the batch request raised and the fetch of the unlisted symbol alone failed
\* too: the listed symbol has a price near its base price, the other a
\* placeholder
C26_Witness ==
    /\ call # None
    /\ call.op = "get_current_prices"
    /\ call.symbols = <<TCS_NS, NEWCO_NS>>
    /\ call.raised
    /\ Failure(call.retry[NEWCO_NS])
    /\ NearBase(call.returned[TCS_NS], TCS_NS)
    /\ call.returned[NEWCO_NS] \in PlaceholderRange
    /\ _price_cache = <<>>

----------------------------------------------------------------------------
(* routes/portfolio.py and routes/goals.py: the holdings and the goals of
   the users.  A request is one step; its response stays in reply until the
   client has it.  The dates and the company names of the rows are left
   out. *)

MaxRows == 2    \* the rows the database may hold, and the largest id

Users == {1, 2}

\* the largest id of a table
LastId(table) ==
    IF DOMAIN table = {} THEN 0
    ELSE CHOOSE i \in DOMAIN table : \A j \in DOMAIN table : j <= i

\* db.session.add(row) for each row of a list and db.session.commit(): a row
\* gets the id after the largest of the table
RECURSIVE Insert(_, _)
Insert(table, rows) ==
    IF rows = <<>> THEN table
    ELSE Insert(Put(table, LastId(table) + 1, Head(rows)), Tail(rows))

\* db.session.delete(row) and db.session.commit()
Delete(table, id) == [i \in DOMAIN table \ {id} |-> table[i]]

\* there is room for n more rows in the table
Room(table, n) ==
    /\ LastId(table) + n <= MaxRows
    /\ Cardinality(DOMAIN holdings) + Cardinality(DOMAIN goals) + n <= MaxRows

\* stock_service.py, lines 26-41
validate_indian_stock(symbol) ==
    /\ symbol # <<>>
    /\ endswith(upper(symbol), DotNS) \/ endswith(upper(symbol), DotBO)

Holding(user_id, symbol, quantity, buy_price, sector) ==
    [user_id |-> user_id, symbol |-> symbol, quantity |-> quantity,
     buy_price |-> buy_price, sector |-> sector]

\* mutant: the handlers do not verify ownership
Owns_Anyone(row, user) == TRUE

\* the row is a record of the user: row.user_id != current_user.id is
\* answered Unauthorized
Owns(row, user) == row.user_id = user

Reply(op, user, id, status) ==
    [op |-> op, user |-> user, id |-> id, status |-> status]

tcs_ns == <<" ", "t", "c", "s", ".", "n", "s">>
aapl == <<"a", "a", "p", "l">>

\* what a user may send to add_stock
StockForms ==
    {[symbol |-> tcs_ns, quantity |-> Number(10), buy_price |-> Number(100)],
     [symbol |-> aapl, quantity |-> Number(10), buy_price |-> Number(100)],
     [symbol |-> tcs_ns, quantity |-> Number(-5), buy_price |-> Absent],
     [symbol |-> tcs_ns, quantity |-> NotANumber, buy_price |-> Number(100)]}

AddStock(user, f) ==
    LET symbol == strip(upper(f.symbol))
        quantity == FloatOf(f.quantity, 0)
        buy_price == FloatOf(f.buy_price, 0)
        raises == FloatRaises(f.quantity) \/ FloatRaises(f.buy_price)
        stored ==
            /\ ~raises
            /\ validate_indian_stock(symbol)
            /\ ~(symbol = <<>> \/ quantity <= 0 \/ buy_price <= 0)
    IN  /\ reply = None
        /\ stored => Room(holdings, 1)
        /\ holdings' =
               IF stored
               THEN Insert(holdings,
                           <<Holding(user, symbol, quantity, buy_price, "")>>)
               ELSE holdings
        /\ reply' = Reply("add_stock", user, 0,
                          IF raises THEN "ValueError"
                          ELSE IF stored THEN "added" ELSE "rejected")
        /\ UNCHANGED <<goals, watchlist, flight, answer>>
        /\ UNCHANGED <<rvars, now, cvars, solved, mvars>>

\* the lines of stocks_data: the number of parts of the line and, of a line
\* of four parts, its symbol, quantity and buy price
Line(parts, symbol, quantity, buy_price) ==
    [parts |-> parts, symbol |-> symbol, quantity |-> quantity,
     buy_price |-> buy_price]

\* 'tcs.ns,10,100,2024-01-01', 'aapl,-5,0,2024-01-01', 'tcs.ns' and
\* 'tcs.ns,ten,100,2024-01-01'
Lines ==
    {Line(4, tcs_ns, Number(10), Number(100)),
     Line(4, aapl, Number(-5), Number(0)),
     Line(1, tcs_ns, Absent, Absent),
     Line(4, tcs_ns, NotANumber, Number(100))}

\* lists of one or two of the elements of S
Lists(S) == {<<x>> : x \in S} \cup {<<x, y>> : x, y \in S}

\* the rows made of the lines that are kept
Rows(lines, Kept(_), Row(_)) ==
    LET kept == SelectSeq(lines, Kept)
    IN  [i \in 1..Len(kept) |-> Row(kept[i])]

BatchUpload(user, lines) ==
    LET Kept(l) ==
            /\ l.parts >= 4
            /\ ~FloatRaises(l.quantity)
            /\ ~FloatRaises(l.buy_price)
        Row(l) == Holding(user, upper(strip(l.symbol)),
                          FloatOf(l.quantity, 0), FloatOf(l.buy_price, 0),
                          "")
        rows == Rows(lines, Kept, Row)
    IN  /\ reply = None
        /\ Room(holdings, Len(rows))
        /\ holdings' = Insert(holdings, rows)
        /\ reply' = Reply("batch_upload", user, Len(rows), "added")
        /\ UNCHANGED <<goals, watchlist, flight, answer>>
        /\ UNCHANGED <<rvars, now, cvars, solved, mvars>>

\* the rows of a CSV file: a column that the file does not have is Absent
\* (the symbol is then '')
CsvRows ==
    {[symbol |-> tcs_ns, quantity |-> Number(10), buy_price |-> Number(100)],
     [symbol |-> aapl, quantity |-> Number(-5), buy_price |-> Absent],
     [symbol |-> tcs_ns, quantity |-> NotANumber, buy_price |-> Number(100)]}

UploadCsv(user, csv_reader) ==
    LET Kept(row) ==
            /\ ~FloatRaises(row.quantity)
            /\ ~FloatRaises(row.buy_price)
        Row(row) == Holding(user, strip(upper(row.symbol)),
                            FloatOf(row.quantity, 0),
                            FloatOf(row.buy_price, 0), "")
        rows == Rows(csv_reader, Kept, Row)
    IN  /\ reply = None
        /\ Room(holdings, Len(rows))
        /\ holdings' = Insert(holdings, rows)
        /\ reply' = Reply("upload_csv", user, Len(rows), "added")
        /\ UNCHANGED <<goals, watchlist, flight, answer>>
        /\ UNCHANGED <<rvars, now, cvars, solved, mvars>>

\* the JSON bodies of update_holding: a key that is not sent is Absent
Updates ==
    {[quantity |-> Number(20), buy_price |-> Number(150), sector |-> "IT"],
     [quantity |-> Number(20), buy_price |-> Number(0), sector |-> "IT"],
     [quantity |-> Number(-5), buy_price |-> Absent, sector |-> ""],
     [quantity |-> Absent, buy_price |-> NotANumber, sector |-> ""]}

\* lines 253-285 of update_holding: the status of the response and the row
\* that is committed
update_holding(table, user, id, data) ==
    LET holding == table[id]
        quantity == FloatOf(data.quantity, holding.quantity)
        buy_price == FloatOf(data.buy_price, holding.buy_price)
    IN  IF id \notin DOMAIN table THEN [status |-> "500", table |-> table]
        ELSE IF ~Owns(holding, user)
        THEN [status |-> "Unauthorized", table |-> table]
        ELSE IF FloatRaises(data.quantity) \/ quantity <= 0
                    \/ FloatRaises(data.buy_price) \/ buy_price <= 0
        THEN [status |-> "400", table |-> table]
        ELSE [status |-> "success",
              table |->
                  [table EXCEPT ![id] =
                       Holding(user, holding.symbol, quantity, buy_price,
                               IF data.sector = "" THEN holding.sector
                               ELSE data.sector)]]

\* after the commit the handler asks get_current_prices for the price of the
\* holding (lines 287-290), for which the provider gives a quote or raises.
\* The cache afterwards does not depend on what random.uniform draws.
UpdateHolding(user, id, data, quoted) ==
    LET r == update_holding(holdings, user, id, data)
        symbol == holdings[id].symbol
        info == IF quoted THEN FastInfo(Quote(symbol, clock), 0)
                ELSE RaisesAnswer
        asked == ToFetch(_price_cache, {symbol}, clock)
        batch == [raises |-> FALSE, infos |-> Put(<<>>, symbol, info)]
        prices == get_current_prices(_price_cache, <<symbol>>, batch,
                                     batch.infos, 0, 0, clock)
    IN  /\ reply = None
        /\ holdings' = r.table
        /\ reply' = Reply("update_holding", user, id, r.status)
        /\ IF r.status = "success"
           THEN /\ _price_cache' = prices.cache
                /\ latest' = Learn(latest, Given(batch.infos, asked), clock)
           ELSE UNCHANGED <<_price_cache, latest>>
        /\ UNCHANGED <<clock, _day_change_cache, _dividend_cache,
                       _corporate_cache, call>>
        /\ UNCHANGED <<goals, watchlist, flight, answer>>
        /\ UNCHANGED <<rvars, now, cvars, solved>>

\* delete_holding_ajax, delete_stock and delete_goal: the status of the
\* response and the table afterwards; missing is the status when there is no
\* row of this id
delete(table, user, id, missing) ==
    IF id \notin DOMAIN table THEN [status |-> missing, table |-> table]
    ELSE IF ~Owns(table[id], user)
    THEN [status |-> "Unauthorized", table |-> table]
    ELSE [status |-> "success", table |-> Delete(table, id)]

DeleteHoldingAjax(user, id) ==
    /\ reply = None
    /\ holdings' = delete(holdings, user, id, "500").table
    /\ reply' = Reply("delete_holding_ajax", user, id,
                      delete(holdings, user, id, "500").status)
    /\ UNCHANGED <<goals, watchlist, flight, answer>>
    /\ UNCHANGED <<rvars, now, cvars, solved, mvars>>

DeleteStock(user, id) ==
    /\ reply = None
    /\ holdings' = delete(holdings, user, id, "404").table
    /\ reply' = Reply("delete_stock", user, id,
                      delete(holdings, user, id, "404").status)
    /\ UNCHANGED <<goals, watchlist, flight, answer>>
    /\ UNCHANGED <<rvars, now, cvars, solved, mvars>>

\* add_goal: float(target_amount) raises for a text that is no number
AddGoal(user, target_amount) ==
    LET raises == FloatRaises(target_amount)
    IN  /\ reply = None
        /\ ~raises => Room(goals, 1)
        /\ goals' =
               IF raises THEN goals
               ELSE Insert(goals,
                           <<[user_id |-> user, name |-> "goal",
                              target_amount |-> FloatOf(target_amount, 0)]>>)
        /\ reply' = Reply("add_goal", user, 0,
                          IF raises THEN "ValueError" ELSE "added")
        /\ UNCHANGED <<holdings, watchlist, flight, answer>>
        /\ UNCHANGED <<rvars, now, cvars, solved, mvars>>

DeleteGoal(user, id) ==
    /\ reply = None
    /\ goals' = delete(goals, user, id, "404").table
    /\ reply' = Reply("delete_goal", user, id,
                      delete(goals, user, id, "404").status)
    /\ UNCHANGED <<holdings, watchlist, flight, answer>>
    /\ UNCHANGED <<rvars, now, cvars, solved, mvars>>

\* the client has the response
TakeReply ==
    /\ reply # None
    /\ reply' = None
    /\ UNCHANGED <<holdings, goals, watchlist, flight, answer>>
    /\ UNCHANGED <<rvars, now, cvars, solved, mvars>>

\* the ids a request may name
Ids == 1..MaxRows

NextPortfolio ==
    \/ \E user \in Users, f \in StockForms : AddStock(user, f)
    \/ \E user \in Users, lines \in Lists(Lines) : BatchUpload(user, lines)
    \/ \E user \in Users, rows \in Lists(CsvRows) : UploadCsv(user, rows)
    \/ \E user \in Users, id \in Ids, data \in Updates :
           \E quoted \in BOOLEAN : UpdateHolding(user, id, data, quoted)
    \/ \E user \in Users, id \in Ids : DeleteHoldingAjax(user, id)
    \/ \E user \in Users, id \in Ids : DeleteStock(user, id)
    \/ \E user \in Users, target_amount \in {Number(1000), NotANumber} :
           AddGoal(user, target_amount)
    \/ \E user \in Users, id \in Ids : DeleteGoal(user, id)
    \/ TakeReply

SpecPortfolio == Init /\ [][NextPortfolio]_vars

----------------------------------------------------------------------------
(* Claims about the holdings and the goals *)

\* the rows of a table that are records of other users
OfOthers(table, user) ==
    [i \in {j \in DOMAIN table : table[j].user_id # user} |-> table[i]]

GuardedOps ==
    {"update_holding", "delete_holding_ajax", "delete_stock", "delete_goal"}

\* C27: no request changes another user's records: in every update_holding,
\* delete_holding_ajax, delete_stock and delete_goal request of a user, each
\* Holding and each Goal of every other user is still there afterwards with
\* all its fields as before, and a request that names a record of another
\* user is answered Unauthorized and writes nothing.
C27_OthersRecordsUntouched ==
    [][(reply = None /\ reply' # None /\ reply'.op \in GuardedOps) =>
          LET table == IF reply'.op = "delete_goal" THEN goals ELSE holdings
          IN  /\ OfOthers(holdings', reply'.user)
                     = OfOthers(holdings, reply'.user)
              /\ OfOthers(goals', reply'.user) = OfOthers(goals, reply'.user)
              /\ reply'.id \in DOMAIN OfOthers(table, reply'.user) =>
                     /\ reply'.status = "Unauthorized"
                     /\ UNCHANGED <<holdings, goals>>
      ]_vars

\* a user who has a holding has asked to update the holding of another
\* user, which is as it was stored
C27_Witness ==
    /\ reply # None
    /\ reply.op = "update_holding"
    /\ reply.status = "Unauthorized"
    /\ DOMAIN holdings = {1, 2}
    /\ holdings[reply.id] = Holding(3 - reply.user, TCS_NS, 10, 100, "")
    /\ holdings[3 - reply.id].user_id = reply.user

\* C28: every Holding stored in the database has a symbol that ends in .NS
\* or .BO, a quantity > 0 and a buy_price > 0, whichever of add_stock,
\* batch_upload, upload_csv and update_holding created or changed it.
C28_StoredHoldingsValid ==
    \A id \in DOMAIN holdings :
        /\ endswith(holdings[id].symbol, DotNS)
               \/ endswith(holdings[id].symbol, DotBO)
        /\ holdings[id].quantity > 0
        /\ holdings[id].buy_price > 0

----------------------------------------------------------------------------
(* routes/api.py: the watchlist.  add_to_watchlist runs its query and its
   insert in two steps, between which other requests may run; the company
   name and the sector of a row are left out. *)

\* lines 343-350: the symbol add_to_watchlist stores for the string s
Normalized(s) ==
    LET symbol == strip(upper(s))
    IN  IF ~endswith(symbol, DotNS) /\ ~endswith(symbol, DotBO)
        THEN symbol \o DotNS
        ELSE symbol

\* Watchlist.query.filter_by(user_id=user, symbol=symbol): the ids found
filter_by(table, user, symbol) ==
    {i \in DOMAIN table :
        table[i].user_id = user /\ table[i].symbol = symbol}

\* the response to a watchlist request for the string s, and the watchlist
\* as it was before the request wrote
Answer(op, user, s, status, before) ==
    [op |-> op, user |-> user, s |-> s, status |-> status, before |-> before]

\* 'tcs', 'TCS.NS', ' tcs.bo' and ''
WatchStrings ==
    {<<"t", "c", "s">>, TCS_NS, <<" ", "t", "c", "s", ".", "b", "o">>, <<>>}

\* lines 341-356 of add_to_watchlist, in thread t
AddToWatchlist(t, user, s) ==
    LET symbol == strip(upper(s))
        existing == filter_by(watchlist, user, Normalized(s))
    IN  /\ t \notin DOMAIN flight
        /\ LastId(watchlist) + Cardinality(DOMAIN flight) + 1 <= MaxRows
        /\ IF symbol = <<>>
           THEN /\ answer' = Answer("add_to_watchlist", user, s,
                                    "Symbol is required", watchlist)
                /\ UNCHANGED flight
           ELSE IF existing # {}
           THEN /\ answer' = Answer("add_to_watchlist", user, s,
                                    "Already in watchlist", watchlist)
                /\ UNCHANGED flight
           ELSE /\ flight' = Put(flight, t, [user |-> user, s |-> s])
                /\ UNCHANGED answer
        /\ UNCHANGED <<watchlist, holdings, goals, reply>>
        /\ UNCHANGED <<rvars, now, cvars, solved, mvars>>

\* lines 358-389 of add_to_watchlist, in thread t
AddToWatchlistInsert(t) ==
    /\ t \in DOMAIN flight
    /\ watchlist' =
           Insert(watchlist,
                  <<[user_id |-> flight[t].user,
                     symbol |-> Normalized(flight[t].s)]>>)
    /\ answer' = Answer("add_to_watchlist", flight[t].user, flight[t].s,
                        "added", watchlist)
    /\ flight' = [u \in DOMAIN flight \ {t} |-> flight[u]]
    /\ UNCHANGED <<holdings, goals, reply>>
    /\ UNCHANGED <<rvars, now, cvars, solved, mvars>>

\* remove_from_watchlist(symbol), lines 395-412
RemoveFromWatchlist(user, s) ==
    LET symbol == strip(upper(s))
        item == filter_by(watchlist, user, symbol)
        first == CHOOSE i \in item : \A j \in item : i <= j
    IN  /\ watchlist' =
               IF item = {} THEN watchlist ELSE Delete(watchlist, first)
        /\ answer' = Answer("remove_from_watchlist", user, s,
                            IF item = {} THEN "Item not found"
                            ELSE "removed",
                            watchlist)
        /\ UNCHANGED <<flight, holdings, goals, reply>>
        /\ UNCHANGED <<rvars, now, cvars, solved, mvars>>

NextWatchlist ==
    \/ \E t \in 1..MaxThreads, user \in Users, s \in WatchStrings :
           AddToWatchlist(t, user, s)
    \/ \E t \in 1..MaxThreads : AddToWatchlistInsert(t)
    \/ \E user \in Users, s \in WatchStrings : RemoveFromWatchlist(user, s)

SpecWatchlist == Init /\ [][NextWatchlist]_vars

----------------------------------------------------------------------------
(* Claims about the watchlist *)

\* C29: a user's watchlist never holds two entries for the same symbol:
\* whatever add_to_watchlist requests ran, one after another or two at
\* once, no two rows of the Watchlist table have the same user and the same
\* symbol.
C29_OneRowPerSymbol ==
    \A i, j \in DOMAIN watchlist :
        (watchlist[i].user_id = watchlist[j].user_id
             /\ watchlist[i].symbol = watchlist[j].symbol) => i = j

\* C30: adding and removing a watchlist symbol round-trips: when
\* add_to_watchlist has added the string s for a user, no request is in
\* flight, and the next request is remove_from_watchlist of the same user
\* with the same s, the removal succeeds and the watchlist is again as it
\* was before the add.
C30_AddThenRemoveRoundTrips ==
    [][(/\ answer # None
        /\ answer.op = "add_to_watchlist"
        /\ answer.status = "added"
        /\ flight = <<>>
        /\ answer' # answer
        /\ answer'.op = "remove_from_watchlist"
        /\ answer'.user = answer.user
        /\ answer'.s = answer.s) =>
           /\ answer'.status = "removed"
           /\ watchlist' = answer.before
      ]_vars
====
